---- MODULE Spec2Model ----
(***************************************************************************)
(* Model of the asset-record merge of the `list` command                   *)
(* (UEVaultManager/cli.py, UEVaultManagerCLI.list_assets) and of the       *)
(* paginated, filterable table view                                        *)
(* (tkgui/modules/cls/EditableTableClass.py, UEVMGuiClass.py,              *)
(* comp/FilterFrameComp.py).                                               *)
(*                                                                         *)
(* Representation of Python values.  A value is a record [t, s]: t is the  *)
(* Python type ("str", "bool", "float", "int", "none") and s is the text   *)
(* str(value) gives, held as the sequence of its comma-separated tokens    *)
(* (the text 'folderX,Marketplace' is <<"folderX", "Marketplace">>, the    *)
(* empty text is <<"">>), so that str.split(',') and ','.join() are exact. *)
(* A cell of a CSV file is such a token sequence (a text).                 *)
(***************************************************************************)
EXTENDS Integers, Sequences, FiniteSets, TLC

VARIABLES
    \* ---- list command (cli.py) ----
    pc,                 \* position in list_assets
    run,                \* number of the current run of the list command
    gui,                \* UEVaultManagerCLI.is_gui: a progress window exists
    batch,              \* the items returned by core.get_asset_list()
    items,              \* local `items` (sorted at line 563)
    cpt,                \* loop position in the current loop
    assets_to_output,   \* dict asset_id -> record (dict in field order)
    assets_in_file,     \* dict asset_id -> csv.DictReader row
    merged,             \* dict asset_id -> csv_record_merged of the last write loop
    file,               \* content of args.output: sequence of rows of cells
    file_at_start,      \* content of the file when the current run started
    first_output,       \* run 1 when it completed: the file, the merged records
                        \* and the existing rows it merged into
    backed_up,          \* create_file_backup() has been called in this run
    log,                \* set of logger messages (kind, asset_id)
    \* ---- table view (EditableTableClass.py) ----
    tv,                 \* record of the fields of the EditableTable / FilterFrame
    \* ---- other windows and commands of the GUI ----
    dbfw,               \* record of the fields of the import/export window
    scan                \* record of the state of UEVMGui.scan_folders

list_vars == <<pc, run, gui, batch, items, cpt, assets_to_output, assets_in_file,
               merged, file, file_at_start, first_output, backed_up, log>>
vars == <<list_vars, tv, dbfw, scan>>

----------------------------------------------------------------------------
(* Python values *)

StrV(toks) == [t |-> "str", s |-> toks]
T(a) == StrV(<<a>>)
BoolV(b) == [t |-> "bool", s |-> <<IF b THEN "True" ELSE "False">>]
FloatV(a) == [t |-> "float", s |-> <<a>>]
IntV(a) == [t |-> "int", s |-> <<a>>]
NoneV == [t |-> "none", s |-> <<"None">>]

\* gui_g.s.empty_cell: the text pandas/the database put in an empty cell
empty_cell == <<"None">>

\* mutant: a boolean is written as 1 or 0
CsvText_BoolAsNumber(v) ==
    IF v.t = "none" THEN <<"">>
    ELSE IF v.t = "bool" THEN (IF v.s = <<"True">> THEN <<"1">> ELSE <<"0">>)
    ELSE v.s

\* what csv.writer writes for a value: '' for None, str(value) otherwise
CsvText(v) == IF v.t = "none" THEN <<"">> ELSE v.s

----------------------------------------------------------------------------
(* Field schema registry *)

\* get_csv_field_name_list(): the order create_asset_from_data zips against
CsvFields ==
    << "Asset_id", "App name", "App title", "Category", "Review", "Developer",
       "Description", "Status", "Discount price", "Discount percentage",
       "Discounted", "Owned", "Obsolete", "Supported versions", "Grab result",
       "Price", "Old price",
       "Comment", "Stars", "Must buy", "Test result", "Installed folder",
       "Alternative", "Origin", "Added manually",
       "Page title", "Image", "Url", "Compatible versions", "Date added",
       "Creation date", "Update date", "UE version", "Uid" >>

FieldSet == {CsvFields[i] : i \in 1..Len(CsvFields)}

\* position (1-based) of a field in the registry order
FieldPos(f) == CHOOSE i \in 1..Len(CsvFields) : CsvFields[i] = f

\* is_preserved(csv_field_name): the user fields keep the stored value
PreservedFields ==
    {"Comment", "Stars", "Must buy", "Test result", "Installed folder",
     "Alternative", "Added manually"}

is_preserved(csv_field) == csv_field \in PreservedFields

\* str_is_bool / str_to_bool: the textual literals of the booleans
str_is_bool(value) == value.s \in {<<"True">>, <<"False">>}

str_to_bool(value) == BoolV(value.s = <<"True">>)

\* texts float() accepts, with the float they denote (as repr() prints it)
FloatOf ==
    [x \in {"0", "0.0", "5.0", "8.0", "9.0", "10", "10.0"} |->
        CASE x = "0" -> "0.0"
          [] x = "10" -> "10.0"
          [] OTHER -> x]

\* float(value) of a number
PyFloat(v) == FloatV(FloatOf[v.s[1]])

\* gui_fn.convert_to_float(value): float(value), 0.0 when it cannot convert
convert_to_float(v) ==
    IF v.t \in {"str", "float", "int"} /\ Len(v.s) = 1 /\ v.s[1] \in DOMAIN FloatOf
    THEN FloatV(FloatOf[v.s[1]])
    ELSE FloatV("0.0")

----------------------------------------------------------------------------
(* Bounds of the model *)

\* longest batch of catalog items a run of the list command receives
MaxItems == 2

\* number of consecutive runs of the list command over the same output file
MaxRuns == 2

\* most rows the table holds (5 at most: SourceIds)
MaxRows == 3

\* largest rows_per_page the table is constructed with
MaxRowsPerPage == 2

\* largest page number typed in the page entry
MaxPageNum == 2

\* most rows added or deleted before the table is saved
MaxEdits == 1
MaxDirty == 2
MaxSaves == 1

\* most operations the database handler performs for the import/export window
MaxDbCalls == 3

\* most boxes 'Processing is already running.' the window shows
MaxInfos == 1

\* most folders the settings hold for the scan
MaxFolders == 2

\* most scans of the folders in a session
MaxScans == 2

----------------------------------------------------------------------------
(* Ordering of texts: Python compares str values lexicographically *)

\* the texts the model sorts, in ascending str order
TextOrder ==
    << "A1", "B1", "C1", "PACKA_5.0", "Pack C", "PackA_5.0", "PackB_5.1",
       "packa_4.27", "packa_5.0", "packb_5.1", "packc_5.0" >>

TextRank(x) == CHOOSE i \in 1..Len(TextOrder) : TextOrder[i] = x

\* str.lower() on the application names of the model
Lower(x) ==
    CASE x = "PackA_5.0" -> "packa_5.0"
      [] x = "PACKA_5.0" -> "packa_5.0"
      [] x = "PackB_5.1" -> "packb_5.1"
      [] OTHER -> x

\* mutant: the names are compared without lower-casing them
SortKey_CaseSensitive(item) == TextRank(item.app_name)

\* the sort key of line 563: x.app_name.lower(), as its rank among the texts
SortKey(item) == TextRank(Lower(item.app_name))

\* sorted(items, key=..., reverse=True): descending by key, equal keys keep
\* their original order (the sort is stable)
RECURSIVE InsertDesc(_, _)
InsertDesc(sorted, x) ==
    IF sorted = <<>> THEN <<x>>
    ELSE IF SortKey(Head(sorted)) >= SortKey(x)
         THEN <<Head(sorted)>> \o InsertDesc(Tail(sorted), x)
         ELSE <<x>> \o sorted

RECURSIVE SortedDesc(_)
SortedDesc(seq) ==
    IF seq = <<>> THEN <<>>
    ELSE InsertDesc(SortedDesc(SubSeq(seq, 1, Len(seq) - 1)), seq[Len(seq)])

\* sorted(d.items()) for a dict with text keys: the keys in ascending order
RECURSIVE SortedKeys(_)
SortedKeys(keys) ==
    IF keys = {} THEN <<>>
    ELSE LET k == CHOOSE x \in keys : \A y \in keys : TextRank(x[1]) <= TextRank(y[1])
         IN <<k>> \o SortedKeys(keys \ {k})

----------------------------------------------------------------------------
(* Catalog items and the record built from one item *)

\* an item of core.get_asset_list(): app_name, the asset_id of
\* asset_infos['Windows'] ("" when the item has no asset_infos), app_title,
\* and the price of its extra data
Item(app_name, asset_id, app_title, price) ==
    [app_name |-> app_name, asset_id |-> asset_id, app_title |-> app_title, price |-> price]

\* the key list_assets gives an item
ItemAssetId(item) ==
    IF item.asset_id # "" THEN <<item.asset_id>> ELSE <<item.app_title>>

\* create_asset_from_data(): the record of an item, in registry order
create_asset_from_data(item, asset_id) ==
    << StrV(asset_id),              \* Asset_id
       T(item.app_name),            \* App name
       T(item.app_title),           \* App title
       T("assets/packs"),           \* Category
       IntV("0"),                   \* Review
       T("Dev"),                    \* Developer
       T("new description"),        \* Description
       T("ACTIVE"),                 \* Status
       FloatV("0.0"),               \* Discount price
       IntV("0"),                   \* Discount percentage
       BoolV(FALSE),                \* Discounted
       BoolV(TRUE),                 \* Owned
       BoolV(FALSE),                \* Obsolete
       StrV(<<"UE_5.0", "UE_5.1">>),  \* Supported versions
       T("NO_ERROR"),               \* Grab result
       FloatV(item.price),          \* Price
       FloatV("0.0"),               \* Old price
       T(""),                       \* Comment
       FloatV("0.0"),               \* Stars
       BoolV(FALSE),                \* Must buy
       T(""),                       \* Test result
       T(""),                       \* Installed folder
       T(""),                       \* Alternative
       T("Marketplace"),            \* Origin
       BoolV(FALSE),                \* Added manually
       T("page title"),             \* Page title
       T("http://img"),             \* Image
       T("http://url"),             \* Url
       StrV(<<"UE_5.0", "UE_5.1">>),  \* Compatible versions
       T("2023-07-01 10:00:00"),    \* Date added
       T("2022-01-01"),             \* Creation date
       T("2023-01-01"),             \* Update date
       T("5.0"),                    \* UE version
       T("uid") >>                  \* Uid

----------------------------------------------------------------------------
(* The flat file: csv.DictReader and csv.writer *)

\* the key csv.DictReader gives the cells a row has beyond the header
\* (restkey, None in Python: no text)
RestKey == <<>>

\* one row as csv.DictReader returns it: a dict over the header's names; a
\* row shorter than the header has None for the missing cells, a longer one
\* has its extra cells under the restkey
DictRow(header, row) ==
    LET keys == {header[i] : i \in 1..Len(header)}
                    \cup (IF Len(row) > Len(header) THEN {RestKey} ELSE {})
    IN [k \in keys |->
            IF k = RestKey THEN [t |-> "list", s |-> <<"extra">>]
            ELSE LET i == CHOOSE j \in 1..Len(header) : header[j] = k
                 IN IF i <= Len(row) THEN StrV(row[i]) ELSE NoneV]

\* dict.get(key, None), the key a field name
DictGet(d, key) == IF <<key>> \in DOMAIN d THEN d[<<key>>] ELSE NoneV

\* lines 600-610: the rows of the output file by asset_id, a later row of the
\* same asset_id replacing an earlier one; a file that is absent or empty
\* gives no row
RECURSIVE ReadRows(_, _, _)
ReadRows(header, rows, acc) ==
    IF rows = <<>> THEN acc
    ELSE IF Head(rows) = <<>> THEN ReadRows(header, Tail(rows), acc)
    ELSE LET csv_record == DictRow(header, Head(rows))
         IN ReadRows(header, Tail(rows), (csv_record[<<"Asset_id">>].s :> csv_record) @@ acc)

ReadCsvFile(f) == IF f = <<>> THEN <<>> ELSE ReadRows(f[1], Tail(f), <<>>)

\* csv.writer.writerow(record): the text of every value
CsvRow(record) == [i \in 1..Len(record) |-> CsvText(record[i])]

----------------------------------------------------------------------------
(* update_and_merge_csv_record_data *)

csv_fields_count == Len(CsvFields)

\* mutant: the incoming Origin is appended without looking for it in the list
OriginUnion_AlwaysAppend(value, incoming) == StrV(value.s \o incoming.s)

\* lines 433-438: split the stored Origin, append the incoming one when it
\* is not one of the stored folders, and join again
OriginUnion(value, incoming) ==
    LET folder_list == value.s
        present == \E i \in 1..Len(folder_list) :
                        incoming.t = "str" /\ incoming.s = <<folder_list[i]>>
    IN StrV(IF present THEN folder_list ELSE folder_list \o incoming.s)

\* mutant: the stored text is kept as it is, 'True'/'False' included
PreservedValue_NoCoercion(value) == value

\* line 441: a preserved field takes the stored value, its text coerced to
\* a boolean when it is the literal of one
PreservedValue(value) == IF str_is_bool(value) THEN str_to_bool(value) ELSE value

\* mutant: the old price is taken from the incoming record instead of the row
\* of the file
MergeField_IncomingPrice(st, item_in_file, _asset_id, index) ==
    LET csv_field == CsvFields[index + 1]
        value == DictGet(item_in_file, csv_field)
    IN IF value = NoneV
       THEN [st EXCEPT !.log = @ \cup {<<"warning: no column", _asset_id>>}]
       ELSE IF value.s = empty_cell
       THEN [st EXCEPT !.rec[index + 1] = T("")]
       ELSE LET st1 ==
                    IF csv_field = "Price"
                    THEN [st EXCEPT !.price_index = index,
                                    !.old_price = convert_to_float(st.rec[index + 1])]
                    ELSE IF csv_field = "Origin"
                    THEN [st EXCEPT !.rec[index + 1] = OriginUnion(value, st.rec[index + 1])]
                    ELSE st
            IN IF is_preserved(csv_field)
               THEN [st1 EXCEPT !.rec[index + 1] = PreservedValue(value)]
               ELSE st1

\* one iteration of the loop of lines 411-441; index is Python's (from 0)
MergeField(st, item_in_file, _asset_id, index) ==
    LET csv_field == CsvFields[index + 1]
        value == DictGet(item_in_file, csv_field)
    IN IF value = NoneV
       THEN [st EXCEPT !.log = @ \cup {<<"warning: no column", _asset_id>>}]
       ELSE IF value.s = empty_cell
       THEN [st EXCEPT !.rec[index + 1] = T("")]
       ELSE LET st1 ==
                    IF csv_field = "Price"
                    THEN [st EXCEPT !.price_index = index,
                                    !.old_price = convert_to_float(item_in_file[<<csv_field>>])]
                    ELSE IF csv_field = "Origin"
                    THEN [st EXCEPT !.rec[index + 1] = OriginUnion(value, st.rec[index + 1])]
                    ELSE st
            IN IF is_preserved(csv_field)
               THEN [st1 EXCEPT !.rec[index + 1] = PreservedValue(value)]
               ELSE st1

\* the loop of lines 411-441 over the registry.  An iteration reads and
\* writes the record at its own position only, and the iteration of 'Price'
\* alone sets price_index and old_price, so the state after the loop is made
\* of what each iteration does to the state the loop starts from
MergeFields(st, item_in_file, _asset_id, count) ==
    LET step(index) == MergeField(st, item_in_file, _asset_id, index)
        price == FieldPos("Price") - 1
    IN [rec |-> [i \in 1..count |-> step(i - 1).rec[i]],
        price_index |-> step(price).price_index,
        old_price |-> step(price).old_price,
        log |-> UNION {step(index).log : index \in 0..(count - 1)}]

\* mutant: the number of keys of the row is not looked at
update_and_merge_csv_record_data_AnyRow(_asset_id, _asset_data, _items_in_file, _no_data_value) ==
    IF _asset_id \notin DOMAIN _items_in_file
    THEN [rec |-> _asset_data, log |-> {}]
    ELSE LET item_in_file == _items_in_file[_asset_id]
             st == MergeFields([rec |-> _asset_data, price_index |-> 0,
                                old_price |-> PyFloat(_no_data_value), log |-> {}],
                               item_in_file, _asset_id, csv_fields_count)
         IN [rec |-> IF st.price_index > 0
                     THEN [st.rec EXCEPT ![st.price_index + 2] = st.old_price]
                     ELSE st.rec,
             log |-> st.log]

\* the whole function: the merged record (rec) and what it logs
update_and_merge_csv_record_data(_asset_id, _asset_data, _items_in_file, _no_data_value) ==
    IF _asset_id \notin DOMAIN _items_in_file
    THEN [rec |-> _asset_data, log |-> {}]
    ELSE LET item_in_file == _items_in_file[_asset_id]
         IN IF Cardinality(DOMAIN item_in_file) # csv_fields_count
            THEN [rec |-> _asset_data, log |-> {<<"error: number of keys", _asset_id>>}]
            ELSE LET st == MergeFields([rec |-> _asset_data, price_index |-> 0,
                                        old_price |-> PyFloat(_no_data_value), log |-> {}],
                                       item_in_file, _asset_id, csv_fields_count)
                 IN [rec |-> IF st.price_index > 0
                             THEN [st.rec EXCEPT ![st.price_index + 2] = st.old_price]
                             ELSE st.rec,
                     log |-> st.log]

\* lines 634-637: the record written for one asset
CsvRecordMerged(asset_id, asset_data, in_file) ==
    IF DOMAIN in_file # {}
    THEN update_and_merge_csv_record_data(asset_id, asset_data, in_file, IntV("0"))
    ELSE [rec |-> asset_data, log |-> {}]

----------------------------------------------------------------------------
(* update_and_merge_json_record_data *)

\* the type create_asset_from_data gives the values of a field
FieldType(csv_field) ==
    create_asset_from_data(Item("", "", "", "0.0"), <<"">>)[FieldPos(csv_field)].t

\* the value json.load gives for a field of a record whose text in the flat
\* file would be cell: a value of the type of the field, None for a cell
\* that is missing or holds the empty-cell marker
JsonValue(csv_field, cell) ==
    IF cell = NoneV \/ cell.s = empty_cell THEN NoneV
    ELSE IF csv_field = RestKey THEN cell
    ELSE [t |-> FieldType(csv_field[1]), s |-> cell.s]

\* the rows of a file as the records of a JSON file
JsonRecords(in_file) ==
    [k \in DOMAIN in_file |->
        [f \in DOMAIN in_file[k] |-> JsonValue(f, in_file[k][f])]]

\* bool(value)
Truthy(v) ==
    CASE v.t = "none" -> FALSE
      [] v.t = "bool" -> v.s = <<"True">>
      [] v.t \in {"float", "int"} -> v.s \notin {<<"0">>, <<"0.0">>}
      [] OTHER -> v.s # <<"">>

\* float(value) does not raise
CanFloat(v) ==
    v.t \in {"str", "float", "int"} /\ Len(v.s) = 1 /\ v.s[1] \in DOMAIN FloatOf

\* the whole function: a preserved field takes the stored value when that
\* value is true, and 'Old price' the stored price, _no_float_value when a
\* price cannot be converted
update_and_merge_json_record_data(_asset, _items_in_file, _no_float_value, _no_bool_false_value) ==
    LET _asset_id == _asset[1]
        _json_record == _asset[2]
    IN IF _asset_id \notin DOMAIN _items_in_file \/ DOMAIN _items_in_file[_asset_id] = {}
       THEN _json_record
       ELSE LET item_in_file == _items_in_file[_asset_id]
                kept == [i \in 1..Len(_json_record) |->
                            IF is_preserved(CsvFields[i])
                               /\ Truthy(DictGet(item_in_file, CsvFields[i]))
                            THEN DictGet(item_in_file, CsvFields[i])
                            ELSE _json_record[i]]
                stored_price == DictGet(item_in_file, "Price")
                old_price == IF CanFloat(kept[FieldPos("Price")]) /\ CanFloat(stored_price)
                             THEN PyFloat(stored_price)
                             ELSE PyFloat(_no_float_value)
            IN [kept EXCEPT ![FieldPos("Old price")] = old_price]

\* lines 667-670: the record written for one asset in a JSON file
JsonRecordMerged(asset_id, asset_data, in_file) ==
    IF DOMAIN in_file # {}
    THEN update_and_merge_json_record_data(<<asset_id, asset_data>>, in_file,
                                           FloatV("0.0"), BoolV(FALSE))
    ELSE asset_data

----------------------------------------------------------------------------
(* list_assets: the steps of one run of the list command with --csv --output *)

\* writer.writerow(get_csv_field_name_list())
HeaderRow == [i \in 1..Len(CsvFields) |-> <<CsvFields[i]>>]

\* mutant: the writing loop stops one asset early
WriteOrder_StopsEarly ==
    SubSeq(SortedKeys(DOMAIN assets_to_output), 1, Cardinality(DOMAIN assets_to_output) - 1)

\* sorted(assets_to_output.items()): the asset_ids in writing order
WriteOrder == SortedKeys(DOMAIN assets_to_output)

\* line 545: no item, the command returns
NoAssets ==
    /\ pc = "start"
    /\ items = <<>>
    /\ pc' = "returned"
    /\ UNCHANGED <<run, gui, batch, items, cpt, assets_to_output, assets_in_file,
                   merged, file, file_at_start, first_output, backed_up, log, tv, dbfw, scan>>

\* lines 549-566: the items sorted by lower-cased app_name, latest first
SortItems ==
    /\ pc = "start"
    /\ items # <<>>
    /\ items' = SortedDesc(items)
    /\ cpt' = 0
    /\ assets_to_output' = <<>>
    /\ assets_in_file' = <<>>
    /\ pc' = "build"
    /\ UNCHANGED <<run, gui, batch, merged, file, file_at_start, first_output,
                   backed_up, log, tv, dbfw, scan>>

\* lines 568-569: the progress window asks to stop
CancelBuild ==
    /\ pc = "build"
    /\ gui
    /\ pc' = "cancelled"
    /\ UNCHANGED <<run, gui, batch, items, cpt, assets_to_output, assets_in_file,
                   merged, file, file_at_start, first_output, backed_up, log, tv, dbfw, scan>>

\* lines 570-590: one item of the loop; an asset_id already present is skipped
BuildItem ==
    /\ pc = "build"
    /\ LET item == items[cpt + 1]
           asset_id == ItemAssetId(item)
       IN assets_to_output' =
            IF asset_id \in DOMAIN assets_to_output
            THEN assets_to_output
            ELSE (asset_id :> create_asset_from_data(item, asset_id)) @@ assets_to_output
    /\ cpt' = cpt + 1
    /\ pc' = IF cpt + 1 = Len(items) THEN "backup" ELSE "build"
    /\ UNCHANGED <<run, gui, batch, items, assets_in_file, merged, file,
                   file_at_start, first_output, backed_up, log, tv, dbfw, scan>>

\* lines 593-594: create_file_backup(args.output)
BackupOutput ==
    /\ pc = "backup"
    /\ backed_up' = TRUE
    /\ pc' = "open"
    /\ UNCHANGED <<run, gui, batch, items, cpt, assets_to_output, assets_in_file,
                   merged, file, file_at_start, first_output, log, tv, dbfw, scan>>

\* lines 596-619: the existing rows are read, the file is reopened for
\* writing (which empties it) and the header is written
OpenOutput ==
    /\ pc = "open"
    /\ assets_in_file' = ReadCsvFile(file)
    /\ file' = <<HeaderRow>>
    /\ cpt' = 0
    /\ merged' = <<>>
    /\ pc' = IF Len(WriteOrder) = 0 THEN "close" ELSE "write"
    /\ UNCHANGED <<run, gui, batch, items, assets_to_output, file_at_start,
                   first_output, backed_up, log, tv, dbfw, scan>>

\* lines 622-623: the progress window asks to stop between two rows
CancelWrite ==
    /\ pc = "write"
    /\ gui
    /\ pc' = "cancelled"
    /\ UNCHANGED <<run, gui, batch, items, cpt, assets_to_output, assets_in_file,
                   merged, file, file_at_start, first_output, backed_up, log, tv, dbfw, scan>>

\* lines 620-639: one asset of the writing loop
WriteRow ==
    /\ pc = "write"
    /\ LET asset_id == WriteOrder[cpt + 1]
           m == CsvRecordMerged(asset_id, assets_to_output[asset_id], assets_in_file)
       IN /\ merged' = (asset_id :> m.rec) @@ merged
          /\ log' = log \cup m.log
          /\ file' = Append(file, CsvRow(m.rec))
    /\ cpt' = cpt + 1
    /\ pc' = IF cpt + 1 = Len(WriteOrder) THEN "close" ELSE "write"
    /\ UNCHANGED <<run, gui, batch, items, assets_to_output, assets_in_file,
                   file_at_start, first_output, backed_up, tv, dbfw, scan>>

\* lines 688-709: the file is closed, the command has finished
CloseOutput ==
    /\ pc = "close"
    /\ pc' = "done"
    /\ first_output' = IF run = 1
                      THEN [file |-> file, merged |-> merged, in_file |-> assets_in_file]
                      ELSE first_output
    /\ UNCHANGED <<run, gui, batch, items, cpt, assets_to_output, assets_in_file,
                   merged, file, file_at_start, backed_up, log, tv, dbfw, scan>>

\* the list command is run again with the same batch over the file it wrote
RunAgain ==
    /\ pc = "done"
    /\ run < MaxRuns
    /\ run' = run + 1
    /\ pc' = "start"
    /\ items' = batch
    /\ cpt' = 0
    /\ assets_to_output' = <<>>
    /\ assets_in_file' = <<>>
    /\ merged' = <<>>
    /\ file_at_start' = file
    /\ backed_up' = FALSE
    /\ log' = {}
    /\ UNCHANGED <<gui, batch, file, first_output, tv, dbfw, scan>>

ListNext ==
    \/ NoAssets
    \/ SortItems
    \/ CancelBuild
    \/ BuildItem
    \/ BackupOutput
    \/ OpenOutput
    \/ CancelWrite
    \/ WriteRow
    \/ CloseOutput
    \/ RunAgain

----------------------------------------------------------------------------
(* The table view: EditableTable and the FilterFrame that filters it *)

\* the quick filters of the combobox (name -> expression) and the
\* expressions typed in the query entry
QuickFilters == [Owned |-> "Owned == True", Obsolete |-> "Obsolete == True"]
QuickFilterNames == DOMAIN QuickFilters
TypedQueries == {"Price > 5"}

\* the asset_ids of the rows an expression selects
FilterHits(expression) ==
    CASE expression = "Owned == True" -> {"A1", "C1"}
      [] expression = "Obsolete == True" -> {}
      [] expression = "Price > 5" -> {"B1", "C1", "dummy_row"}
      [] expression = "owned()" -> {"A1", "C1"}
      [] OTHER -> {}

\* the asset_ids of the rows of the data source, in the order of the source
SourceIds == <<"A1", "B1", "C1", "D1", "E1">>

\* the fields of an EditableTable before it is constructed (the class
\* attributes) and of its filter frame.  source is the content of the data
\* source (the file or the database), cli_ref tells whether gui_g.UEVM_cli_ref
\* is set, continue_execution is the flag of the progress window, touched
\* holds the asset_ids of the records created or edited in memory since the
\* data was loaded or saved, db_saved and db_deleted the asset_ids the last
\* save_data gave to save_ue_asset and to delete_asset, saves the number of
\* times the data source has been saved or rebuilt.  data_source is the name
\* of the data source, other_source the content of the other file the user
\* can open, csv_header tells whether the flat file holds its header row (a
\* flat file without it has no content at all), db_handler whether
\* _db_handler is set, query_result what the last get_filtered_df returned
NoTable ==
    [source |-> <<>>, data |-> <<>>, filtered |-> <<>>, filtered_is_data |-> TRUE,
     df |-> <<>>, rows_per_page |-> 1, pagination_enabled |-> TRUE,
     current_page |-> 1, total_pages |-> 1, row_count |-> 0, row_filtered_count |-> 0,
     must_save |-> FALSE, must_rebuild |-> FALSE,
     changed_rows |-> <<>>, deleted_asset_ids |-> <<>>,
     entry_query |-> "", old_entry_query |-> "", cb_quick_filter |-> "",
     loaded_filter |-> "",
     btn_first_prev |-> FALSE, btn_next_last |-> FALSE, entry_current_page |-> TRUE,
     shown |-> FALSE,
     data_source_type |-> "FILE", cli_ref |-> FALSE, continue_execution |-> TRUE,
     touched |-> {}, db_saved |-> {}, db_deleted |-> {}, saves |-> 0,
     data_source |-> "assets.csv", other_source |-> <<>>, csv_header |-> TRUE,
     db_handler |-> FALSE, query_result |-> [kind |-> "None", rows |-> <<>>]]

\* get_data_filtered(): _filtered is the object _data itself when update()
\* found no mask, and a copy of the selected rows otherwise
get_data_filtered(t) == IF t.filtered_is_data THEN t.data ELSE t.filtered

\* data[mask]: the rows the mask selects, in order, with their labels
SelectRows(rows, ids) == SelectSeq(rows, LAMBDA r : r.asset_id \in ids)

\* DataFrame.iloc[start:end]: a slice never raises; a negative bound counts
\* from the end
PyBound(n, b) == IF b < 0 THEN (IF n + b < 0 THEN 0 ELSE n + b) ELSE (IF b > n THEN n ELSE b)
PySlice(rows, start, end) ==
    SubSeq(rows, PyBound(Len(rows), start) + 1, PyBound(Len(rows), end))

\* Python's floor division by a positive number
FloorDiv(a, b) == IF a >= 0 THEN a \div b ELSE -(((-a) + b - 1) \div b)

\* FilterFrame.create_mask(): None ("") when no filter is loaded, else the
\* expression whose rows are kept
create_mask(t) == t.loaded_filter

\* UEVMGui.update_navigation, called by update_page through
\* update_page_numbers_func
update_navigation(t) ==
    [t EXCEPT !.btn_first_prev = t.current_page > 1,
              !.btn_next_last = t.current_page < t.total_pages,
              !.entry_current_page = TRUE]

\* mutant: the pages are counted on the whole data, not on the filtered rows
update_page_AllRows(t) ==
    IF t.pagination_enabled
    THEN LET data_count == Len(t.data)
             start == (t.current_page - 1) * t.rows_per_page
             end == start + t.rows_per_page
         IN update_navigation(
                [t EXCEPT !.total_pages = FloorDiv(data_count - 1, t.rows_per_page) + 1,
                          !.df = PySlice(get_data_filtered(t), start, end)])
    ELSE update_navigation(
             [t EXCEPT !.df = get_data_filtered(t), !.current_page = 1, !.total_pages = 1])

\* EditableTable.update_page
update_page(t) ==
    IF t.pagination_enabled
    THEN LET data_count == Len(get_data_filtered(t))
             start == (t.current_page - 1) * t.rows_per_page
             end == start + t.rows_per_page
         IN update_navigation(
                [t EXCEPT !.total_pages = FloorDiv(data_count - 1, t.rows_per_page) + 1,
                          !.df = PySlice(get_data_filtered(t), start, end)])
    ELSE update_navigation(
             [t EXCEPT !.df = get_data_filtered(t), !.current_page = 1, !.total_pages = 1])

\* EditableTable.update
update(t, reset_page) ==
    LET mask == create_mask(t)
        rows == IF mask # "" THEN SelectRows(t.data, FilterHits(mask)) ELSE t.data
    IN update_page([t EXCEPT !.current_page = IF reset_page THEN 1 ELSE @,
                             !.filtered = rows,
                             !.filtered_is_data = (mask = ""),
                             !.row_count = Len(t.data),
                             !.row_filtered_count = Len(rows)])

\* the rows pd.read_csv gives, labelled from 0
RowsOf(ids) == [i \in 1..Len(ids) |-> [index |-> i - 1, asset_id |-> ids[i]]]

\* os.path.splitext(filename)[1] of the two files of the model
DataSources == {"assets.csv", "assets.db"}
Ext(filename) == IF filename = "assets.db" THEN ".db" ELSE ".csv"

\* EditableTable.valid_source_type: the type is stored before the user is
\* asked; answer is what box_yesno returns when it is called
valid_source_type(t, filename, answer) ==
    LET new_type == IF Ext(filename) = ".db" THEN "SQLITE" ELSE "FILE"
    IN [t |-> [t EXCEPT !.data_source_type = new_type],
        go_on |-> IF t.data_source_type # new_type THEN answer ELSE TRUE]

\* EditableTable.load_data: ok is what it returns, answer what the user
\* answers if valid_source_type asks.  A database read without a handler
\* raises AttributeError, which ends the call.  A flat file that holds only
\* its header row leaves an empty table (the row create_row made is replaced
\* by the rows read); a flat file without content (EmptyDataError) and a
\* database without rows leave the row create_row(add_to_existing=False)
\* made
load_data(t, answer) ==
    LET valid == valid_source_type([t EXCEPT !.must_rebuild = FALSE], t.data_source, answer)
        s == valid.t
    IN IF ~valid.go_on
       THEN [t |-> s, ok |-> FALSE]
       ELSE IF s.data_source_type = "SQLITE" /\ ~s.db_handler
       THEN [t |-> s, ok |-> FALSE]
       ELSE IF Len(s.source) <= 0 /\ s.data_source_type = "FILE" /\ s.csv_header
       THEN [t |-> [s EXCEPT !.must_rebuild = TRUE, !.data = <<>>, !.touched = {},
                             !.filtered = get_data_filtered(s), !.filtered_is_data = FALSE],
             ok |-> FALSE]
       ELSE IF Len(s.source) <= 0
       THEN [t |-> [s EXCEPT !.must_rebuild = TRUE,
                             !.data = <<[index |-> 0, asset_id |-> "dummy_row"]>>,
                             !.touched = {},
                             !.filtered = get_data_filtered(s), !.filtered_is_data = FALSE,
                             !.total_pages = 1],
             ok |-> TRUE]
       ELSE [t |-> [s EXCEPT !.must_rebuild = FALSE,
                             !.data = RowsOf(s.source),
                             !.touched = {},
                             !.filtered = get_data_filtered(s),
                             !.filtered_is_data = FALSE,
                             !.total_pages = FloorDiv(Len(s.source) - 1, s.rows_per_page) + 1],
             ok |-> TRUE]

\* EditableTable.add_to_rows_to_save
add_to_rows_to_save(t, row_index) ==
    IF row_index < 0 \/ row_index > Len(t.data)
       \/ \E i \in 1..Len(t.changed_rows) : t.changed_rows[i] = row_index
    THEN t
    ELSE [t EXCEPT !.changed_rows = Append(@, row_index)]

\* EditableTable.add_to_asset_ids_to_delete
add_to_asset_ids_to_delete(t, asset_id) ==
    IF \E i \in 1..Len(t.deleted_asset_ids) : t.deleted_asset_ids[i] = asset_id
    THEN t
    ELSE [t EXCEPT !.deleted_asset_ids = Append(@, asset_id)]

\* DataFrame.drop(index, inplace=True): the rows of another label
DropLabel(rows, label) == SelectSeq(rows, LAMBDA r : r.index # label)

\* FilterFrame.update_controls: Apply and Clear are enabled when there is a
\* query or a quick filter name
FilterButtonsEnabled(t) == t.entry_query # "" \/ t.cb_quick_filter # ""

\* FilterFrame.set_filter
set_filter(t, value) ==
    [t EXCEPT !.loaded_filter = value,
              !.old_entry_query = t.entry_query,
              !.entry_query = value,
              !.cb_quick_filter = ""]

\* the end of a handler: shown tells whether it ended with update()
Done(t, shown) == [t EXCEPT !.shown = shown]

\* FilterFrame.clear_filter: update_func is called when the query entry,
\* now empty, differs from old_entry_query
clear_filter(t) ==
    LET c == [t EXCEPT !.cb_quick_filter = "", !.entry_query = "", !.loaded_filter = ""]
    IN Done(IF c.entry_query # c.old_entry_query THEN update(c, TRUE) ELSE c,
            c.entry_query # c.old_entry_query)

----------------------------------------------------------------------------
(* The handlers of the window (UEVMGui) and of the filter frame *)

\* UEVMGui.show_first_page -> EditableTable.first_page
ShowFirstPage ==
    /\ pc = "gui" /\ tv.btn_first_prev
    /\ tv' = Done(update([tv EXCEPT !.current_page = 1], FALSE), TRUE)
    /\ UNCHANGED <<list_vars, dbfw, scan>>

\* UEVMGui.show_prev_page -> EditableTable.prev_page
ShowPrevPage ==
    /\ pc = "gui" /\ tv.btn_first_prev
    /\ tv' = Done(IF tv.current_page > 1
                  THEN update([tv EXCEPT !.current_page = @ - 1], FALSE)
                  ELSE update_navigation(tv), tv.current_page > 1)
    /\ UNCHANGED <<list_vars, dbfw, scan>>

\* UEVMGui.show_next_page -> EditableTable.next_page
ShowNextPage ==
    /\ pc = "gui" /\ tv.btn_next_last
    /\ tv' = Done(IF tv.current_page < tv.total_pages
                  THEN update([tv EXCEPT !.current_page = @ + 1], FALSE)
                  ELSE update_navigation(tv), tv.current_page < tv.total_pages)
    /\ UNCHANGED <<list_vars, dbfw, scan>>

\* UEVMGui.show_last_page -> EditableTable.last_page
ShowLastPage ==
    /\ pc = "gui" /\ tv.btn_next_last
    /\ tv' = Done(update([tv EXCEPT !.current_page = tv.total_pages], FALSE), TRUE)
    /\ UNCHANGED <<list_vars, dbfw, scan>>

\* UEVMGui.on_entry_current_page_changed: the number typed becomes the page
OnEntryCurrentPageChanged ==
    /\ pc = "gui" /\ tv.entry_current_page
    /\ \E page_num \in 0..MaxPageNum :
          tv' = Done(update([tv EXCEPT !.current_page = page_num], FALSE), TRUE)
    /\ UNCHANGED <<list_vars, dbfw, scan>>

\* UEVMGui.toggle_pagination
TogglePagination ==
    /\ pc = "gui"
    /\ LET t == update([tv EXCEPT !.pagination_enabled = ~@], FALSE)
       IN tv' = Done(IF ~t.pagination_enabled
                     THEN [t EXCEPT !.btn_first_prev = FALSE, !.btn_next_last = FALSE,
                                    !.entry_current_page = FALSE]
                     ELSE update_navigation(t), TRUE)
    /\ UNCHANGED <<list_vars, dbfw, scan>>

\* sorted(row_indexes): the selected positions in ascending order
RECURSIVE Ascending(_)
Ascending(S) ==
    IF S = {} THEN <<>>
    ELSE LET m == CHOOSE x \in S : \A y \in S : x <= y
         IN <<m>> \o Ascending(S \ {m})

\* EditableTable.del_row: row_indexes are the selected positions of the page
\* shown, in ascending order, confirmed those the user says yes for when
\* asked.  The guard compares the position before the page offset is added;
\* a position past the end of the filtered rows raises IndexError, which
\* ends the call with the rows before it deleted.  number_deleted is counted
\* and never subtracted from the position.  yes holds the selected positions
\* for which box_yesno was answered yes
RECURSIVE del_row(_, _, _, _)
del_row(t, row_indexes, confirmed, number_deleted) ==
    IF row_indexes = <<>> THEN [t |-> t, yes |-> {}]
    ELSE LET selected == Head(row_indexes)
             filtered == get_data_filtered(t)
             row_index == IF t.pagination_enabled
                          THEN selected + t.rows_per_page * (t.current_page - 1)
                          ELSE selected
         IN IF ~(t.data # <<>> /\ selected < Len(filtered))
            THEN del_row(t, Tail(row_indexes), confirmed, number_deleted)
            ELSE IF row_index >= Len(filtered)
            THEN [t |-> t, yes |-> {}]
            ELSE IF selected \notin confirmed
            THEN del_row(t, Tail(row_indexes), confirmed, number_deleted)
            ELSE LET row == filtered[row_index + 1]
                     dropped == [t EXCEPT !.data = DropLabel(@, row.index)]
                     rest == del_row(add_to_asset_ids_to_delete(dropped, row.asset_id),
                                     Tail(row_indexes), confirmed, number_deleted + 1)
                 IN [t |-> rest.t, yes |-> rest.yes \cup {selected}]

\* UEVMGui.del_row -> EditableTable.del_row on the rows selected in the page
\* shown (multiplerowlist); the user confirms each row or not
DelRow ==
    /\ pc = "gui"
    /\ tv.saves < MaxSaves
    /\ Len(tv.changed_rows) + Len(tv.deleted_asset_ids) < MaxEdits
    /\ \E multiplerowlist \in SUBSET (0..(Len(tv.df) - 1)) :
          /\ multiplerowlist # {}
          /\ \E confirmed \in SUBSET multiplerowlist :
                tv' = Done(del_row(tv, Ascending(multiplerowlist), confirmed, 0).t, FALSE)
    /\ UNCHANGED <<list_vars, dbfw, scan>>

\* UEVMGui.add_row -> EditableTable.create_row(add_to_existing=True)
AddRow ==
    /\ pc = "gui"
    /\ Len(tv.data) < MaxRows
    /\ tv.saves < MaxSaves
    /\ Len(tv.changed_rows) + Len(tv.deleted_asset_ids) < MaxEdits
    /\ LET rows == tv.data \o <<[index |-> 0, asset_id |-> "dummy_row"]>>
           t1 == [tv EXCEPT !.must_rebuild = FALSE,
                            !.filtered = get_data_filtered(tv),
                            !.filtered_is_data = FALSE,
                            !.data = [i \in 1..Len(rows) |-> [rows[i] EXCEPT !.index = i - 1]]]
           t2 == add_to_rows_to_save(t1, Len(rows) - 1)
       IN tv' = Done(update([t2 EXCEPT !.must_save = TRUE,
                                       !.db_handler = @ \/ tv.data_source_type = "SQLITE",
                                       !.touched = @ \cup {"dummy_row"}], FALSE), TRUE)
    /\ UNCHANGED <<list_vars, dbfw, scan>>

\* UEVMGui.reload_data -> EditableTable.reload_data; with unsaved changes
\* the user is asked first
ReloadData ==
    /\ pc = "gui"
    /\ \E confirm \in BOOLEAN, answer \in BOOLEAN :
          IF tv.must_save /\ ~confirm
          THEN tv' = Done(tv, FALSE)
          ELSE LET loaded == load_data(tv, answer)
               IN tv' = Done(IF loaded.ok THEN update(loaded.t, FALSE) ELSE loaded.t,
                             loaded.ok)
    /\ UNCHANGED <<list_vars, dbfw, scan>>

\* the combobox of quick filters: <<ComboboxSelected>> -> get_quick_filter
SelectQuickFilter ==
    /\ pc = "gui"
    /\ \E quick_filter_name \in QuickFilterNames :
          LET t == set_filter([tv EXCEPT !.cb_quick_filter = quick_filter_name],
                              QuickFilters[quick_filter_name])
          IN tv' = Done(update(t, TRUE), TRUE)
    /\ UNCHANGED <<list_vars, dbfw, scan>>

\* a key released in the query entry: FilterFrame._on_query_change
TypeQuery ==
    /\ pc = "gui"
    /\ \E text \in TypedQueries \cup {""} :
          /\ text # tv.entry_query
          /\ tv' = Done([tv EXCEPT !.entry_query = text,
                                   !.old_entry_query = IF text # @ THEN text ELSE @],
                        FALSE)
    /\ UNCHANGED <<list_vars, dbfw, scan>>

\* the Apply button: FilterFrame.apply_filters
ApplyFilters ==
    /\ pc = "gui"
    /\ FilterButtonsEnabled(tv)
    /\ LET t == IF tv.cb_quick_filter \in QuickFilterNames
                THEN set_filter(set_filter(tv, QuickFilters[tv.cb_quick_filter]),
                                QuickFilters[tv.cb_quick_filter])
                ELSE IF tv.entry_query # ""
                THEN [set_filter(tv, tv.entry_query) EXCEPT !.cb_quick_filter = ""]
                ELSE tv
       IN tv' = Done(update(t, TRUE), TRUE)
    /\ UNCHANGED <<list_vars, dbfw, scan>>

\* the Clear button: FilterFrame.clear_filter
ClearFilter ==
    /\ pc = "gui"
    /\ FilterButtonsEnabled(tv)
    /\ tv' = clear_filter(tv)
    /\ UNCHANGED <<list_vars, dbfw, scan>>

TableNext ==
    \/ ShowFirstPage
    \/ ShowPrevPage
    \/ ShowNextPage
    \/ ShowLastPage
    \/ OnEntryCurrentPageChanged
    \/ TogglePagination
    \/ DelRow
    \/ AddRow
    \/ ReloadData
    \/ SelectQuickFilter
    \/ TypeQuery
    \/ ApplyFilters
    \/ ClearFilter

----------------------------------------------------------------------------
(* Editing the records and saving them to the data source *)

\* EditableTable.get_row: the record at a position of the filtered rows,
\* None (<<>>) when iloc raises IndexError
get_row(t, row_index) ==
    LET filtered == get_data_filtered(t)
    IN IF row_index < Len(filtered) /\ row_index >= -Len(filtered)
       THEN <<filtered[(IF row_index < 0 THEN Len(filtered) + row_index ELSE row_index) + 1]>>
       ELSE <<>>

\* the asset_ids of a sequence of records or of ids
Range(f) == {f[i] : i \in DOMAIN f}
Ids(rows) == {rows[i].asset_id : i \in DOMAIN rows}

\* UEAssetDbHandler.save_ue_asset on each asset_id in turn: the row of the
\* asset is replaced, or added when the database has none
RECURSIVE save_ue_asset(_, _)
save_ue_asset(rows, asset_ids) ==
    IF asset_ids = <<>> THEN rows
    ELSE save_ue_asset(IF Head(asset_ids) \in Range(rows) THEN rows
                       ELSE Append(rows, Head(asset_ids)),
                       Tail(asset_ids))

\* UEAssetDbHandler.delete_asset for a set of asset_ids
delete_asset(rows, asset_ids) == SelectSeq(rows, LAMBDA a : a \notin asset_ids)

\* the dirty positions save_data resolves to a record, in the order of the
\* list, as the asset_ids of these records
ResolvedIds(t) ==
    LET found == SelectSeq(t.changed_rows, LAMBDA row : get_row(t, row) # <<>>)
    IN [i \in 1..Len(found) |-> get_row(t, found[i])[1].asset_id]

\* the entries of a list before the first one that is refused
RECURSIVE BeforeFailure(_, _)
BeforeFailure(asset_ids, failing) ==
    IF asset_ids = <<>> \/ Head(asset_ids) \in failing THEN <<>>
    ELSE <<Head(asset_ids)>> \o BeforeFailure(Tail(asset_ids), failing)

\* mutant: the first error of the database handler ends the save
save_data_AbortsOnFailure(t, failure, failing) ==
    LET model == [t EXCEPT !.df = t.data]
    IN IF t.data_source_type = "FILE"
       THEN IF failure = "none"
            THEN [t |-> [model EXCEPT !.source = [i \in 1..Len(t.data) |-> t.data[i].asset_id],
                                      !.csv_header = TRUE,
                                      !.changed_rows = <<>>,
                                      !.deleted_asset_ids = <<>>,
                                      !.touched = {},
                                      !.must_save = FALSE],
                  ok |-> TRUE]
            ELSE [t |-> model, ok |-> FALSE]
       ELSE LET resolved == ResolvedIds(t)
                saved == BeforeFailure(resolved, failing)
                deleted == IF Len(saved) < Len(resolved) THEN {}
                           ELSE Range(BeforeFailure(t.deleted_asset_ids, failing))
            IN [t |-> [model EXCEPT !.source = delete_asset(save_ue_asset(@, saved), deleted),
                                    !.db_saved = Range(saved),
                                    !.db_handler = @ \/ resolved # <<>> \/ t.deleted_asset_ids # <<>>,
                                    !.db_deleted = deleted,
                                    !.changed_rows = <<>>,
                                    !.deleted_asset_ids = <<>>,
                                    !.touched = {},
                                    !.must_save = FALSE],
                ok |-> TRUE]

\* mutant: the lists are cleared before the flat file is written
save_data_ClearsOnFailure(t, failure, failing) ==
    LET model == [t EXCEPT !.df = t.data]
    IN IF t.data_source_type = "FILE"
       THEN IF failure = "none"
            THEN [t |-> [model EXCEPT !.source = [i \in 1..Len(t.data) |-> t.data[i].asset_id],
                                      !.changed_rows = <<>>,
                                      !.deleted_asset_ids = <<>>,
                                      !.touched = {},
                                      !.must_save = FALSE],
                  ok |-> TRUE]
            ELSE [t |-> [model EXCEPT !.changed_rows = <<>>,
                                      !.deleted_asset_ids = <<>>,
                                      !.must_save = FALSE],
                  ok |-> FALSE]
       ELSE LET resolved == ResolvedIds(t)
                saved == SelectSeq(resolved, LAMBDA a : a \notin failing)
                deleted == Range(t.deleted_asset_ids) \ failing
            IN [t |-> [model EXCEPT !.source = delete_asset(save_ue_asset(@, saved), deleted),
                                    !.db_saved = Range(saved),
                                    !.db_handler = @ \/ resolved # <<>> \/ t.deleted_asset_ids # <<>>,
                                    !.db_deleted = deleted,
                                    !.changed_rows = <<>>,
                                    !.deleted_asset_ids = <<>>,
                                    !.touched = {},
                                    !.must_save = FALSE],
                ok |-> TRUE]

\* mutant: the save to the database leaves must_save as it was
save_data_KeepsMustSave(t, failure, failing) ==
    LET model == [t EXCEPT !.df = t.data]
    IN IF t.data_source_type = "FILE"
       THEN IF failure = "none"
            THEN [t |-> [model EXCEPT !.source = [i \in 1..Len(t.data) |-> t.data[i].asset_id],
                                      !.csv_header = TRUE,
                                      !.changed_rows = <<>>,
                                      !.deleted_asset_ids = <<>>,
                                      !.touched = {},
                                      !.must_save = FALSE],
                  ok |-> TRUE]
            ELSE [t |-> model, ok |-> FALSE]
       ELSE LET resolved == ResolvedIds(t)
                saved == SelectSeq(resolved, LAMBDA a : a \notin failing)
                deleted == Range(t.deleted_asset_ids) \ failing
            IN [t |-> [model EXCEPT !.source = delete_asset(save_ue_asset(@, saved), deleted),
                                    !.db_saved = Range(saved),
                                    !.db_handler = @ \/ resolved # <<>> \/ t.deleted_asset_ids # <<>>,
                                    !.db_deleted = deleted,
                                    !.changed_rows = <<>>,
                                    !.deleted_asset_ids = <<>>,
                                    !.touched = {}],
                ok |-> TRUE]


\* EditableTable.save_data.  failure is what happens to to_csv ("none", or
\* "open" when the file cannot be opened and an exception is raised), failing
\* the asset_ids for which the database handler raises one of the caught
\* errors.  ok tells whether the method has reached its end
save_data(t, failure, failing) ==
    LET model == [t EXCEPT !.df = t.data]
    IN IF t.data_source_type = "FILE"
       THEN IF failure = "none"
            THEN [t |-> [model EXCEPT !.source = [i \in 1..Len(t.data) |-> t.data[i].asset_id],
                                      !.csv_header = TRUE,
                                      !.changed_rows = <<>>,
                                      !.deleted_asset_ids = <<>>,
                                      !.touched = {},
                                      !.must_save = FALSE],
                  ok |-> TRUE]
            ELSE [t |-> model, ok |-> FALSE]
       ELSE LET resolved == ResolvedIds(t)
                saved == SelectSeq(resolved, LAMBDA a : a \notin failing)
                deleted == Range(t.deleted_asset_ids) \ failing
            IN [t |-> [model EXCEPT !.source = delete_asset(save_ue_asset(@, saved), deleted),
                                    !.db_saved = Range(saved),
                                    !.db_handler = @ \/ resolved # <<>> \/ t.deleted_asset_ids # <<>>,
                                    !.db_deleted = deleted,
                                    !.changed_rows = <<>>,
                                    !.deleted_asset_ids = <<>>,
                                    !.touched = {},
                                    !.must_save = FALSE],
                ok |-> TRUE]

\* the outcomes of the write of the flat file
WriteFailures == {"none", "open"}

\* the asset_ids the database handler may refuse
MayFail(t) == SUBSET (Range(ResolvedIds(t)) \cup Range(t.deleted_asset_ids))

\* EditableTable.save_edit_cell_value on a cell of a row of the page shown:
\* the value goes to model.df at the displayed position, and the displayed
\* position goes to the dirty-row list
save_edit_cell_value(t, row) ==
    add_to_rows_to_save([t EXCEPT !.touched = @ \cup {t.df[row + 1].asset_id},
                                  !.must_save = TRUE],
                        row)

\* the edit of a cell of a row of the page shown
EditCell ==
    /\ pc = "gui"
    /\ tv.saves < MaxSaves
    /\ Len(tv.changed_rows) < MaxDirty
    /\ \E row \in 0..(Len(tv.df) - 1) :
          tv' = Done(save_edit_cell_value(tv, row), FALSE)
    /\ UNCHANGED <<list_vars, dbfw, scan>>

\* UEVMGui.save_all -> EditableTable.save_data; for a flat file the user may
\* leave the file dialog without a name, and nothing is saved
SaveData ==
    /\ pc = "gui"
    /\ tv.saves < MaxSaves
    /\ \E filename \in BOOLEAN, failure \in WriteFailures, failing \in MayFail(tv) :
          /\ tv.data_source_type = "FILE" \/ (filename /\ failure = "none")
          /\ tv.data_source_type = "SQLITE" \/ failing = {}
          /\ tv' = IF tv.data_source_type = "FILE" /\ ~filename
                   THEN Done(tv, FALSE)
                   ELSE Done([save_data(tv, failure, failing).t EXCEPT !.saves = @ + 1],
                             FALSE)
    /\ UNCHANGED <<list_vars, dbfw, scan>>

\* what the rebuild leaves in the data source: the assets scraped
ScrapedSources == {SubSeq(SourceIds, 1, n) : n \in {0, MaxRows}}

\* UEVMGui.rebuild_data -> EditableTable.rebuild_data, up to the end of
\* gather_all_assets_urls for a database, and to its end for a flat file
\* (list_assets rewrites the file, then the file is loaded)
RebuildData ==
    /\ pc = "gui"
    /\ tv.saves < MaxSaves
    /\ \E confirm \in BOOLEAN, listed \in ScrapedSources, answer \in BOOLEAN :
          LET t == [tv EXCEPT !.changed_rows = <<>>, !.deleted_asset_ids = <<>>,
                              !.must_save = FALSE, !.continue_execution = TRUE,
                              !.saves = @ + 1]
              loaded == load_data([t EXCEPT !.source = listed, !.current_page = 1], answer)
          IN IF ~confirm
             THEN tv' = Done(tv, FALSE) /\ pc' = pc
             ELSE IF tv.data_source_type = "SQLITE"
             THEN tv' = Done(t, FALSE) /\ pc' = "rebuild"
             ELSE IF ~tv.cli_ref
             THEN tv' = Done(t, FALSE) /\ pc' = pc
             ELSE /\ tv' = Done(IF loaded.ok THEN update(loaded.t, FALSE) ELSE loaded.t,
                                loaded.ok)
                  /\ pc' = pc
    /\ UNCHANGED <<run, gui, batch, items, cpt, assets_to_output, assets_in_file,
                   merged, file, file_at_start, first_output, backed_up, log, dbfw, scan>>

\* the Stop button of the progress window, while the urls are gathered
StopProgress ==
    /\ pc = "rebuild"
    /\ tv.continue_execution
    /\ tv' = [tv EXCEPT !.continue_execution = FALSE]
    /\ UNCHANGED <<list_vars, dbfw, scan>>

\* mutant: the flag of the progress window is not read
RebuildSave_IgnoresStop ==
    /\ pc = "rebuild"
    /\ pc' = "gui"
    /\ \E scraped \in ScrapedSources, answer \in BOOLEAN :
          LET loaded == load_data([tv EXCEPT !.source = scraped, !.current_page = 1], answer)
          IN tv' = Done(IF loaded.ok THEN update(loaded.t, FALSE) ELSE loaded.t,
                        loaded.ok)
    /\ UNCHANGED <<run, gui, batch, items, cpt, assets_to_output, assets_in_file,
                   merged, file, file_at_start, first_output, backed_up, log, dbfw, scan>>

\* the rest of EditableTable.rebuild_data on a database: nothing more when
\* the progress window was stopped, else scraper.save, load_data and update
RebuildSave ==
    /\ pc = "rebuild"
    /\ pc' = "gui"
    /\ \E scraped \in ScrapedSources, answer \in BOOLEAN :
          LET loaded == load_data([tv EXCEPT !.source = scraped, !.current_page = 1], answer)
          IN tv' = IF ~tv.continue_execution
                   THEN Done(tv, FALSE)
                   ELSE Done(IF loaded.ok THEN update(loaded.t, FALSE) ELSE loaded.t,
                             loaded.ok)
    /\ UNCHANGED <<run, gui, batch, items, cpt, assets_to_output, assets_in_file,
                   merged, file, file_at_start, first_output, backed_up, log, dbfw, scan>>

EditNext ==
    \/ ShowPrevPage
    \/ ShowNextPage
    \/ DelRow
    \/ AddRow
    \/ EditCell
    \/ SaveData
    \/ ReloadData
    \/ RebuildData
    \/ StopProgress
    \/ RebuildSave
    \/ SelectQuickFilter
    \/ ClearFilter

\* the handlers that edit, reload and rebuild the table, without the save
RebuildNext ==
    \/ ShowPrevPage
    \/ ShowNextPage
    \/ DelRow
    \/ AddRow
    \/ EditCell
    \/ ReloadData
    \/ RebuildData
    \/ StopProgress
    \/ RebuildSave

----------------------------------------------------------------------------
(* The evaluation of the loaded filter: FilterFrame.get_filtered_df *)

\* the filters the window sets from the saved configuration: a callable the
\* class FilterCallable has, a callable it has not, and a query that pandas
\* cannot parse
SavedFilters == {"owned()", "gone()", "Price >"}

\* FilterValue.ftype of a filter value
ftype(value) == IF value \in {"owned()", "gone()"} THEN "CALLABLE" ELSE "STR"

\* gui_f.parse_callable: the name of the function a value calls
parse_callable(value) ==
    CASE value = "owned()" -> "owned"
      [] value = "gone()" -> "gone"
      [] OTHER -> value

\* FilterCallable.get_method: the method of that name, None ("") when the
\* class has none
get_method(func_name) == IF func_name \in {"owned"} THEN func_name ELSE ""

\* DataFrame.query raises on an expression it cannot parse
QueryRaises(query) == query \in {"Price >", "gone()"}

\* mutant: the query is run in place on the data
get_filtered_df_InPlace(t) ==
    LET filter_value == t.loaded_filter
    IN IF filter_value = ""
       THEN [t |-> t, result |-> [kind |-> "None", rows |-> <<>>]]
       ELSE IF ftype(filter_value) = "CALLABLE" /\ get_method(parse_callable(filter_value)) = ""
       THEN [t |-> clear_filter(t), result |-> [kind |-> "None", rows |-> <<>>]]
       ELSE IF ftype(filter_value) # "CALLABLE" /\ QueryRaises(filter_value)
       THEN [t |-> t, result |-> [kind |-> "raised", rows |-> <<>>]]
       ELSE [t |-> [t EXCEPT !.data = SelectRows(t.data, FilterHits(filter_value))],
             result |-> [kind |-> "None", rows |-> <<>>]]

\* FilterFrame.get_filtered_df on the data of the table: result is what it
\* returns (None, or the rows the query selects) or that the exception of
\* the query went to the caller.  A callable that is not found raises
\* AttributeError, which is caught: the filter is cleared and None returned
get_filtered_df(t) ==
    LET filter_value == t.loaded_filter
    IN IF filter_value = ""
       THEN [t |-> t, result |-> [kind |-> "None", rows |-> <<>>]]
       ELSE IF ftype(filter_value) = "CALLABLE" /\ get_method(parse_callable(filter_value)) = ""
       THEN [t |-> clear_filter(t), result |-> [kind |-> "None", rows |-> <<>>]]
       ELSE IF ftype(filter_value) # "CALLABLE" /\ QueryRaises(filter_value)
       THEN [t |-> t, result |-> [kind |-> "raised", rows |-> <<>>]]
       ELSE [t |-> t,
             result |-> [kind |-> "rows",
                         rows |-> SelectRows(t.data, FilterHits(filter_value))]]

\* a filter of the saved configuration is set: FilterFrame.set_filter
SetFilter ==
    /\ pc = "gui"
    /\ \E filter_values \in SavedFilters :
          tv' = Done(set_filter(tv, filter_values), FALSE)
    /\ UNCHANGED <<list_vars, dbfw, scan>>

\* the loaded filter is evaluated for the table
GetFilteredDf ==
    /\ pc = "gui"
    /\ tv' = [get_filtered_df(tv).t EXCEPT !.query_result = get_filtered_df(tv).result]
    /\ UNCHANGED <<list_vars, dbfw, scan>>

FilterNext ==
    \/ ShowPrevPage
    \/ ShowNextPage
    \/ DelRow
    \/ SelectQuickFilter
    \/ TypeQuery
    \/ ApplyFilters
    \/ ClearFilter
    \/ SetFilter
    \/ GetFilteredDf

----------------------------------------------------------------------------
(* Opening another data source: UEVMGui.open_file *)

\* data_table.data_source = filename: source is from now on the content of
\* the file of that name
set_data_source(t, filename) ==
    IF filename = t.data_source THEN t
    ELSE [t EXCEPT !.data_source = filename,
                   !.source = t.other_source,
                   !.other_source = t.source]

\* UEVMGui.open_file with the file name the dialog returned; answer is what
\* the user answers if valid_source_type asks
open_file(t, filename, answer) ==
    LET valid == valid_source_type(set_data_source(t, filename), filename, answer)
        loaded == load_data(valid.t, answer)
    IN IF ~valid.go_on
       THEN Done(valid.t, FALSE)
       ELSE IF ~loaded.ok
       THEN Done(loaded.t, FALSE)
       ELSE Done(update([loaded.t EXCEPT !.current_page = 1], FALSE), TRUE)

\* the Open button; the dialog may be left without a file name
OpenFile ==
    /\ pc = "gui"
    /\ \E filename \in DataSources \cup {""}, answer \in BOOLEAN :
          tv' = IF filename = "" THEN Done(tv, FALSE) ELSE open_file(tv, filename, answer)
    /\ UNCHANGED <<list_vars, dbfw, scan>>

OpenNext ==
    \/ ShowPrevPage
    \/ ShowNextPage
    \/ AddRow
    \/ SaveData
    \/ ReloadData
    \/ OpenFile

----------------------------------------------------------------------------
(* The database import/export window: DbFilesWindowClass.ControlFrame *)

\* the choices of the combobox of the tables: nothing selected yet, the
\* value for all the tables, one table
TableNames == {"", "All", "assets"}

\* an operation of the database handler on the files either returns or
\* raises (a file or a table it cannot read or write)
DbOutcomes == {"returns", "raises"}

\* the window right after its construction: running is the handler that is
\* being executed ("None": the main loop waits for an event) and `at' its
\* position; db_calls are the operations the database handler has performed;
\* files is what the last import returned; infos counts the boxes
\* 'Processing is already running.'; raised is set when the last handler
\* ended with an exception (Tk reports it and goes on)
NewWindow ==
    [open |-> TRUE, processing |-> FALSE, running |-> "None", at |-> "None",
     cb_table |-> "", var_backup_on_export |-> TRUE, var_delete_content |-> FALSE,
     var_user_fields |-> TRUE, db_calls |-> <<>>, files |-> FALSE,
     infos |-> 0, must_reload |-> FALSE, status_label |-> "", raised |-> FALSE]

\* no import/export window exists
NoWindow == [NewWindow EXCEPT !.open = FALSE]

\* Tk dispatches an event to the window: from the main loop, or from the
\* update() a running handler calls (set_status, import_data, export_data)
CanDispatch(w) == w.open /\ w.at \in {"None", "update", "finished"}

\* the name given to the database handler (lines 158-160 and 187-189)
table_name(w) == IF w.cb_table = "All" THEN "" ELSE w.cb_table

\* a handler ends with the exception it did not catch: nothing after the
\* raising statement is executed
Raised(w) == [w EXCEPT !.running = "None", !.at = "None", !.raised = TRUE]

\* a click on 'Import from files': import_data, up to the update() of
\* line 156
ImportData ==
    /\ CanDispatch(dbfw)
    /\ IF dbfw.processing THEN dbfw.infos < MaxInfos
       ELSE Len(dbfw.db_calls) + 2 <= MaxDbCalls
    /\ dbfw' = IF dbfw.processing THEN [dbfw EXCEPT !.infos = @ + 1]
               ELSE [dbfw EXCEPT !.processing = TRUE,
                                 !.status_label = "Processing...",
                                 !.running = "import", !.at = "update",
                                 !.raised = FALSE]
    /\ UNCHANGED <<list_vars, tv, scan>>

\* import_data, lines 157-172: the widgets are read (they raise when the
\* window was destroyed meanwhile), the files are imported and the result
\* is shown; set_status ends with an update()
ImportFromCsv ==
    /\ dbfw.running = "import" /\ dbfw.at = "update"
    /\ \E outcome \in DbOutcomes, must_reload \in BOOLEAN :
          dbfw' = IF ~dbfw.open \/ outcome = "raises" THEN Raised(dbfw)
                  ELSE [dbfw EXCEPT
                          !.db_calls = Append(@, [op |-> "import_from_csv",
                                                  table_name |-> table_name(dbfw),
                                                  option |-> dbfw.var_delete_content]),
                          !.files = must_reload,
                          !.status_label = "Import finished.",
                          !.at = "finished"]
    /\ UNCHANGED <<list_vars, tv, scan>>

\* import_data, lines 173-174
ImportEnd ==
    /\ dbfw.running = "import" /\ dbfw.at = "finished"
    /\ dbfw' = [dbfw EXCEPT !.must_reload = dbfw.files, !.processing = FALSE,
                            !.running = "None", !.at = "None"]
    /\ UNCHANGED <<list_vars, tv, scan>>

\* a click on 'Export to files': export_data, up to the update() of
\* line 186
ExportData ==
    /\ CanDispatch(dbfw)
    /\ IF dbfw.processing THEN dbfw.infos < MaxInfos
       ELSE Len(dbfw.db_calls) + 2 <= MaxDbCalls
    /\ dbfw' = IF dbfw.processing THEN [dbfw EXCEPT !.infos = @ + 1]
               ELSE [dbfw EXCEPT !.processing = TRUE,
                                 !.status_label = "Processing...",
                                 !.running = "export", !.at = "update",
                                 !.raised = FALSE]
    /\ UNCHANGED <<list_vars, tv, scan>>

\* export_data, lines 187-203: the tables are exported, then the user
\* fields of the assets when the box is checked
ExportToCsv ==
    /\ dbfw.running = "export" /\ dbfw.at = "update"
    /\ \E outcome \in DbOutcomes, outcome_user_fields \in DbOutcomes :
          LET call == [op |-> "export_to_csv", table_name |-> table_name(dbfw),
                       option |-> dbfw.var_backup_on_export]
              exported == [dbfw EXCEPT !.db_calls = Append(@, call)]
              all == IF dbfw.var_user_fields
                     THEN [exported EXCEPT !.db_calls =
                              Append(@, [call EXCEPT !.table_name = "assets_user_fields"])]
                     ELSE exported
          IN dbfw' = IF ~dbfw.open \/ outcome = "raises" THEN Raised(dbfw)
                     ELSE IF dbfw.var_user_fields /\ outcome_user_fields = "raises"
                     THEN Raised(exported)
                     ELSE [all EXCEPT !.status_label = "Export finished.",
                                      !.at = "finished"]
    /\ UNCHANGED <<list_vars, tv, scan>>

\* export_data, line 204
ExportEnd ==
    /\ dbfw.running = "export" /\ dbfw.at = "finished"
    /\ dbfw' = [dbfw EXCEPT !.processing = FALSE, !.running = "None", !.at = "None"]
    /\ UNCHANGED <<list_vars, tv, scan>>

\* a click on 'Close Window': close_window destroys the window
CloseWindow ==
    /\ CanDispatch(dbfw)
    /\ dbfw' = [dbfw EXCEPT !.open = FALSE]
    /\ UNCHANGED <<list_vars, tv, scan>>

\* the user selects a table in the combobox
SelectTable ==
    /\ CanDispatch(dbfw)
    /\ \E name \in TableNames \ {""} :
          /\ name # dbfw.cb_table
          /\ dbfw' = [dbfw EXCEPT !.cb_table = name]
    /\ UNCHANGED <<list_vars, tv, scan>>

\* the user checks or unchecks one of the three boxes
CheckOption ==
    /\ CanDispatch(dbfw)
    /\ \/ dbfw' = [dbfw EXCEPT !.var_backup_on_export = ~@]
       \/ dbfw' = [dbfw EXCEPT !.var_delete_content = ~@]
       \/ dbfw' = [dbfw EXCEPT !.var_user_fields = ~@]
    /\ UNCHANGED <<list_vars, tv, scan>>

DbFilesNext ==
    \/ ImportData
    \/ ImportFromCsv
    \/ ImportEnd
    \/ ExportData
    \/ ExportToCsv
    \/ ExportEnd
    \/ CloseWindow
    \/ SelectTable
    \/ CheckOption

----------------------------------------------------------------------------
(* The scan of the folders: UEVMGui.scan_folders *)

\* A folder is the sequence of the names of its absolute path. The disk
\* holds a project (v/pack/Content), a plugin (p, with a .uplugin file) and
\* a folder with a bad structure (w/Maps); `gone' is configured but is not
\* on the disk. No name is the beginning of another one at the same place,
\* so str.startswith on the paths is the prefix of the sequences.
Dirs ==
    { <<"v">>, <<"v", "pack">>, <<"v", "pack", "Content">>,
      <<"p">>, <<"w">>, <<"w", "Maps">> }

\* the folders the user may have configured
ConfiguredFolders ==
    { <<"v">>, <<"v", "pack">>, <<"v", "pack", "Content">>,
      <<"p">>, <<"w", "Maps">>, <<"gone">> }

\* the folders that hold a file with an extension of ue_valid_file_content
WithValidFile == { <<"p">> }

\* lower-cased names of gui_g.s.ue_valid_folder_content, of
\* ue_invalid_folder_content and of ue_possible_folder_content
ue_valid_folder_content == {"Content"}
ue_invalid_folder_content == {"Binaries", "Saved"}
ue_possible_folder_content == {"Maps"}

\* len() of a name, for the sort of line 656
NameLen(name) ==
    CASE name \in {"v", "p", "w"} -> 1
      [] name \in {"pack", "Maps", "gone"} -> 4
      [] OTHER -> 7

RECURSIVE PathLen(_)
PathLen(path) ==
    IF path = <<>> THEN 0
    ELSE 1 + NameLen(path[1]) + PathLen(Tail(path))

\* os.path.basename and os.path.dirname
basename(path) == IF path = <<>> THEN "" ELSE path[Len(path)]
dirname(path) == IF path = <<>> THEN <<>> ELSE SubSeq(path, 1, Len(path) - 1)

StartsWith(path, prefix) ==
    Len(path) >= Len(prefix) /\ SubSeq(path, 1, Len(prefix)) = prefix

\* what shutil.move did to a folder: the entries of a restructured parent,
\* its Content folder excepted, are now inside its Content folder
Relocated(path, restructured) ==
    IF \E q \in restructured :
          Len(path) > Len(q) /\ StartsWith(path, q) /\ path[Len(q) + 1] # "Content"
    THEN LET q == CHOOSE q \in restructured :
                     Len(path) > Len(q) /\ StartsWith(path, q)
         IN q \o <<"Content">> \o SubSeq(path, Len(q) + 1, Len(path))
    ELSE path

\* os.path.isdir, after the moves of this scan and of the ones before
DirsNow(restructured) ==
    { Relocated(d, restructured) : d \in Dirs } \cup { q \o <<"Content">> : q \in restructured }
isdir(path, restructured) == path \in DirsNow(restructured)

\* the folders os.scandir(path) yields; a folder of this disk holds at most
\* one folder, so their order is not a choice
scandir(path, restructured) ==
    LET RECURSIVE SetToSeq(_)
        SetToSeq(S) ==
            IF S = {} THEN <<>>
            ELSE LET x == CHOOSE x \in S : TRUE IN <<x>> \o SetToSeq(S \ {x})
    IN SetToSeq({ d \in DirsNow(restructured) : d # <<>> /\ dirname(d) = path })

\* list.remove(x), guarded by `x in list' at each call
RECURSIVE Remove(_, _)
Remove(list, x) ==
    IF list = <<>> THEN <<>>
    ELSE IF list[1] = x THEN Tail(list)
    ELSE <<list[1]>> \o Remove(Tail(list), x)

In(x, list) == \E i \in 1..Len(list) : list[i] = x

\* sorted(folder_to_scan, key=lambda x: len(x), reverse=True): the longest
\* first, the folders of the same length in the order they had
RECURSIVE SortedByLen(_)
SortedByLen(list) ==
    LET RECURSIVE InsertByLen(_, _)
        InsertByLen(sorted, x) ==
            IF sorted = <<>> THEN <<x>>
            ELSE IF PathLen(sorted[1]) < PathLen(x) THEN <<x>> \o sorted
            ELSE <<sorted[1]>> \o InsertByLen(Tail(sorted), x)
    IN IF list = <<>> THEN <<>>
       ELSE InsertByLen(SortedByLen(SubSeq(list, 1, Len(list) - 1)), list[Len(list)])

\* The state of the scan. folders_to_scan is the list the settings hold
\* (gui_g.s.folders_to_scan); the local variable folder_to_scan is a name
\* for that list (aliased) until an assignment binds it to a new list.
\* `before' is the setting when the last scan was called and `ended' how
\* that scan ended; core is UEVMGui.core (None when the window was not
\* launched from the command line).
NoScan ==
    [folders_to_scan |-> <<>>, aliased |-> FALSE, folder_to_scan |-> <<>>,
     at |-> "None", ended |-> "None", pw |-> FALSE, core |-> TRUE,
     valid_folders |-> {}, invalid_folders |-> <<>>, added |-> {},
     restructured |-> {}, before |-> <<>>, scans |-> 0]

\* the list the local variable names
Local(s) == IF s.aliased THEN s.folders_to_scan ELSE s.folder_to_scan

\* a change of the list in place (pop, remove, append)
InPlace(s, list) ==
    IF s.aliased THEN [s EXCEPT !.folders_to_scan = list]
    ELSE [s EXCEPT !.folder_to_scan = list]

\* folder_to_scan = <a new list>
Rebound(s, list) == [s EXCEPT !.aliased = FALSE, !.folder_to_scan = list]

\* valid_folders[folder_name] = {...}
SetValid(s, name, path, asset_type, grab_result) ==
    [s EXCEPT !.valid_folders =
        { v \in @ : v.name # name }
        \cup {[name |-> name, path |-> path, asset_type |-> asset_type,
               grab_result |-> grab_result]}]

\* lines 578-598: the user accepts to move the entries of the parent folder
\* inside a Content folder
restructure(s, full_folder) ==
    LET parent_folder == dirname(full_folder)
        content_folder == parent_folder \o <<"Content">>
        entries == scandir(parent_folder, s.restructured)
        moved == IF isdir(content_folder, s.restructured) THEN <<>>
                 ELSE SelectSeq(entries, LAMBDA e : basename(e) # "Content")
        RECURSIVE RemoveAll(_, _)
        RemoveAll(list, paths) ==
            IF paths = <<>> THEN list
            ELSE RemoveAll(IF In(paths[1], list) THEN Remove(list, paths[1]) ELSE list,
                           Tail(paths))
        l1 == RemoveAll(Local(s), moved)
        l2 == IF In(full_folder, l1) THEN Remove(l1, full_folder) ELSE l1
        l3 == IF In(parent_folder, l2) THEN l2 ELSE Append(l2, parent_folder)
        s1 == IF isdir(content_folder, s.restructured) THEN s
              ELSE [s EXCEPT !.restructured = @ \cup {parent_folder}]
    IN InPlace(s1, l3)

\* lines 600-653: the entries of the folder; a valid file makes the folder
\* an asset and drops its subfolders from the list, a folder is added to
\* the list; a folder that was moved away raises FileNotFoundError, caught
scan_entries(s, full_folder, url_found) ==
    IF ~isdir(full_folder, s.restructured) THEN s
    ELSE IF full_folder \in WithValidFile
    THEN LET s1 == SetValid(s, basename(full_folder), full_folder, "Plugin",
                            IF url_found THEN "NO_ERROR" ELSE "")
             s2 == IF url_found THEN s1
                   ELSE [s1 EXCEPT !.invalid_folders = Append(@, basename(full_folder))]
         IN Rebound(s2, SelectSeq(Local(s2), LAMBDA f : ~StartsWith(f, full_folder)))
    ELSE LET entries == SelectSeq(scandir(full_folder, s.restructured),
                                  LAMBDA e : basename(e) \notin ue_invalid_folder_content)
         IN InPlace(s, Local(s) \o entries)

\* lines 537-656: one turn of the loop `while folder_to_scan'
scan_folder(s, go_on, answer, url_found) ==
    LET list == Local(s)
        full_folder == list[Len(list)]
        popped == InPlace(s, SubSeq(list, 1, Len(list) - 1))
        folder_name == basename(full_folder)
        folder_is_valid == folder_name \in ue_valid_folder_content
        parent_could_be_valid ==
            folder_name \in ue_invalid_folder_content \cup ue_possible_folder_content
        parent_folder == dirname(full_folder)
    IN IF ~go_on THEN [popped EXCEPT !.pw = FALSE, !.at = "None", !.ended = "cancelled"]
       ELSE IF ~isdir(full_folder, s.restructured)
       THEN Rebound(popped, SortedByLen(Local(popped)))
       ELSE IF ~s.core THEN [popped EXCEPT !.at = "None", !.ended = "raised"]
       ELSE IF folder_is_valid
       THEN SetValid(popped, basename(parent_folder), parent_folder, "Asset",
                     IF url_found THEN "NO_ERROR" ELSE "")
       ELSE LET s1 == IF parent_could_be_valid /\ answer
                      THEN restructure(popped, full_folder) ELSE popped
                s2 == scan_entries(s1, full_folder, url_found)
            IN Rebound(s2, SortedByLen(Local(s2)))

\* the user chooses 'Scan assets'; lines 526-535: the local variable is
\* bound to the list of the settings and the progress window is shown
ScanFolders ==
    /\ scan.at = "None"
    /\ scan.scans < MaxScans
    /\ scan' = [scan EXCEPT !.aliased = TRUE, !.folder_to_scan = <<>>,
                            !.valid_folders = {}, !.invalid_folders = <<>>,
                            !.added = {}, !.pw = TRUE, !.at = "loop",
                            !.ended = "None",
                            !.before = scan.folders_to_scan, !.scans = @ + 1]
    /\ UNCHANGED <<list_vars, tv, dbfw>>

\* one turn of the loop; the user may have pressed Stop, answers the
\* question about the structure, and the url of the asset is found or not
ScanFolder ==
    /\ scan.at = "loop"
    /\ Local(scan) # <<>>
    /\ \E go_on \in BOOLEAN, answer \in BOOLEAN, url_found \in BOOLEAN :
          scan' = scan_folder(scan, go_on, answer, url_found)
    /\ UNCHANGED <<list_vars, tv, dbfw>>

\* lines 658-728, when the list is empty: the valid folders become rows of
\* the table (which is not part of this record) until the user stops, and
\* the progress window is closed; without core, line 660 raises and the
\* progress window stays
ScanAddRows ==
    /\ scan.at = "loop"
    /\ Local(scan) = <<>>
    /\ \E names \in SUBSET { v.name : v \in scan.valid_folders } :
          scan' = IF ~scan.core THEN [scan EXCEPT !.at = "None", !.ended = "raised"]
                  ELSE [scan EXCEPT !.added = names, !.pw = FALSE, !.at = "None",
                                    !.ended = "completed"]
    /\ UNCHANGED <<list_vars, tv, dbfw>>

ScanNext ==
    \/ ScanFolders
    \/ ScanFolder
    \/ ScanAddRows

----------------------------------------------------------------------------
(* Inputs of the list command *)

\* catalog items: two versions of the asset A1 and a third spelling of one of
\* them (same lower-cased name), the asset B1, an item without asset_infos
ItemA427 == Item("packa_4.27", "A1", "Pack A", "8.0")
ItemA50 == Item("PackA_5.0", "A1", "Pack A", "9.0")
ItemA50u == Item("PACKA_5.0", "A1", "Pack A", "5.0")
ItemB51 == Item("PackB_5.1", "B1", "Pack B", "5.0")
ItemC50 == Item("packc_5.0", "", "Pack C", "0.0")

\* a row of an existing output file for an asset: the cells of the registry,
\* written by an earlier run and edited by the user since
ExistingRow(asset_id, price, old_price, description, comment, origin) ==
    << <<asset_id>>, <<"packa_4.0">>, <<"Pack A">>, <<"assets/packs">>, <<"0">>,
       <<"Dev">>, description, <<"ACTIVE">>, <<"0.0">>, <<"0">>,
       <<"False">>, <<"True">>, <<"False">>, <<"UE_4.27", "UE_5.0">>, <<"NO_ERROR">>,
       price, old_price,
       comment, <<"3.0">>, <<"True">>, <<"">>, <<"">>,
       <<"">>, origin, <<"False">>,
       <<"page title">>, <<"http://img">>, <<"http://url">>, <<"UE_4.27", "UE_5.0">>,
       <<"2023-01-01 10:00:00">>, <<"2022-01-01">>, <<"2022-06-01">>, <<"4.27">>, <<"uid">> >>

\* the row of an asset that is in the file only
RowC1 == ExistingRow("C1", <<"5.0">>, <<"0.0">>, <<"old description">>, <<"keep">>, <<"folderZ">>)

\* the rows of A1 the merge is tried on: every combination of the cells below
RowsA1 ==
    { ExistingRow("A1", price, old_price, description, comment, origin) :
        price \in {<<"10.0">>, <<"abc">>, empty_cell},
        old_price \in {<<"5.0">>, empty_cell},
        description \in {<<"old description">>, empty_cell},
        comment \in {<<"nice">>, <<"True">>, empty_cell},
        origin \in {<<"folderX">>, <<"folderX", "Marketplace">>, <<"">>, empty_cell} }

\* existing files: none; the registry header with a row of A1 that has all
\* its cells, one cell too many, or only the cells up to 'Must buy'; a file of
\* an older version, without the last column
ExistingFiles ==
    {<<>>}
    \cup { <<HeaderRow, r, RowC1>> : r \in RowsA1 }
    \cup { <<HeaderRow, r \o << <<"extra">> >>, RowC1>> : r \in RowsA1 }
    \cup { <<HeaderRow, SubSeq(r, 1, 20), RowC1>> : r \in RowsA1 }
    \cup { <<SubSeq(HeaderRow, 1, Len(HeaderRow) - 1),
             SubSeq(r, 1, Len(r) - 1), SubSeq(RowC1, 1, Len(RowC1) - 1)>> : r \in RowsA1 }

\* the sequences without repetition of at most n items of a set
RECURSIVE Batches(_, _)
Batches(pool, n) ==
    IF n = 0 THEN {<<>>}
    ELSE LET shorter == Batches(pool, n - 1)
         IN shorter \cup
            { Append(b, x) : b \in {c \in shorter : Len(c) = n - 1},
                             x \in pool }

NoRepetition(b) == \A i, j \in 1..Len(b) : i # j => b[i] # b[j]

ListInit(batches, files, guis) ==
    /\ pc = "start"
    /\ run = 1
    /\ gui \in guis
    /\ batch \in batches
    /\ items = batch
    /\ cpt = 0
    /\ assets_to_output = <<>>
    /\ assets_in_file = <<>>
    /\ merged = <<>>
    /\ file \in files
    /\ file_at_start = file
    /\ first_output = [file |-> <<>>, merged |-> <<>>, in_file |-> <<>>]
    /\ backed_up = FALSE
    /\ log = {}
    /\ dbfw = NoWindow
    /\ scan = NoScan
    /\ tv = NoTable

\* the merge, on every existing file, for a batch that has A1 and a new asset
MergeInit ==
    ListInit({b \in Batches({ItemA427, ItemB51}, MaxItems) :
                 NoRepetition(b) /\ (Len(b) > 0 => b[1] = ItemA427)},
             ExistingFiles, {TRUE})

SpecMerge == MergeInit /\ [][ListNext]_vars

\* the list command, on every batch, with and without a progress window
BatchInit ==
    ListInit({b \in Batches({ItemA427, ItemA50, ItemA50u, ItemB51, ItemC50}, MaxItems) :
                 NoRepetition(b)},
             {<<>>, <<HeaderRow, ExistingRow("A1", <<"10.0">>, <<"5.0">>, <<"old description">>,
                                              <<"nice">>, <<"folderX">>), RowC1>>},
             BOOLEAN)

SpecList == BatchInit /\ [][ListNext]_vars

\* the window after its construction (UEVMGui.__init__): the table has
\* loaded a source that has rows and update() has shown its first page
TableInit ==
    /\ pc = "gui"
    /\ run = 1
    /\ gui = TRUE
    /\ batch = <<>>
    /\ items = <<>>
    /\ cpt = 0
    /\ assets_to_output = <<>>
    /\ assets_in_file = <<>>
    /\ merged = <<>>
    /\ file = <<>>
    /\ file_at_start = <<>>
    /\ first_output = [file |-> <<>>, merged |-> <<>>, in_file |-> <<>>]
    /\ backed_up = FALSE
    /\ log = {}
    /\ dbfw = NoWindow
    /\ scan = NoScan
    /\ \E n \in 1..MaxRows, rows_per_page \in 1..MaxRowsPerPage :
          LET loaded == load_data([NoTable EXCEPT !.source = SubSeq(SourceIds, 1, n),
                                                  !.rows_per_page = rows_per_page], TRUE)
          IN tv = Done(update(loaded.t, FALSE), TRUE)

SpecTable == TableInit /\ [][TableNext]_vars

\* the window over a flat file or a database, launched from the command
\* line or not
EditInit ==
    /\ pc = "gui"
    /\ run = 1
    /\ gui = TRUE
    /\ batch = <<>>
    /\ items = <<>>
    /\ cpt = 0
    /\ assets_to_output = <<>>
    /\ assets_in_file = <<>>
    /\ merged = <<>>
    /\ file = <<>>
    /\ file_at_start = <<>>
    /\ first_output = [file |-> <<>>, merged |-> <<>>, in_file |-> <<>>]
    /\ backed_up = FALSE
    /\ log = {}
    /\ dbfw = NoWindow
    /\ scan = NoScan
    /\ \E n \in 1..MaxRows, rows_per_page \in 1..MaxRowsPerPage,
          data_source_type \in {"FILE", "SQLITE"}, cli_ref \in BOOLEAN :
          /\ data_source_type = "FILE" \/ cli_ref
          /\ LET loaded == load_data([NoTable EXCEPT !.source = SubSeq(SourceIds, 1, n),
                                                     !.rows_per_page = rows_per_page,
                                                     !.data_source_type = data_source_type,
                                                     !.data_source =
                                                         IF data_source_type = "SQLITE"
                                                         THEN "assets.db" ELSE "assets.csv",
                                                     !.db_handler = (data_source_type = "SQLITE"),
                                                     !.cli_ref = cli_ref], TRUE)
             IN tv = Done(update(loaded.t, FALSE), TRUE)

SpecEdit == EditInit /\ [][EditNext]_vars

\* the list command and the window, each from its start
SpecCancel == (BatchInit \/ EditInit) /\ [][ListNext \/ EditNext]_vars

\* the table and its filter frame, with the filters of the configuration
SpecFilter == TableInit /\ [][FilterNext]_vars

\* the window in which the data is edited and rebuilt, never saved
SpecRebuild == EditInit /\ [][RebuildNext]_vars

\* the contents of the file that is not the data source at the start
OtherSources == {<<>>, SubSeq(SourceIds, 2, MaxRows)}

\* the window of the GUI, without a table: the values of the variables of
\* the list command and of the table that the other windows leave alone
GuiInit ==
    /\ pc = "gui"
    /\ run = 1
    /\ gui = TRUE
    /\ batch = <<>>
    /\ items = <<>>
    /\ cpt = 0
    /\ assets_to_output = <<>>
    /\ assets_in_file = <<>>
    /\ merged = <<>>
    /\ file = <<>>
    /\ file_at_start = <<>>
    /\ first_output = [file |-> <<>>, merged |-> <<>>, in_file |-> <<>>]
    /\ backed_up = FALSE
    /\ log = {}
    /\ tv = NoTable

\* the import/export window after its construction
DbFilesInit ==
    /\ GuiInit
    /\ dbfw = NewWindow
    /\ scan = NoScan

SpecDbFiles == DbFilesInit /\ [][DbFilesNext]_vars

\* the main window before a scan, for every list of at most MaxFolders
\* configured folders, launched from the command line or not
ScanInit ==
    /\ GuiInit
    /\ dbfw = NoWindow
    /\ \E folders \in {b \in Batches(ConfiguredFolders, MaxFolders) : NoRepetition(b)},
          core \in BOOLEAN :
          scan = [NoScan EXCEPT !.folders_to_scan = folders, !.core = core]

SpecScan == ScanInit /\ [][ScanNext]_vars

\* the window over one of two files, a flat file and a database; the flat
\* file, when it is not the data source and holds no record, holds its
\* header row or nothing
OpenInit ==
    /\ pc = "gui"
    /\ run = 1
    /\ gui = TRUE
    /\ batch = <<>>
    /\ items = <<>>
    /\ cpt = 0
    /\ assets_to_output = <<>>
    /\ assets_in_file = <<>>
    /\ merged = <<>>
    /\ file = <<>>
    /\ file_at_start = <<>>
    /\ first_output = [file |-> <<>>, merged |-> <<>>, in_file |-> <<>>]
    /\ backed_up = FALSE
    /\ log = {}
    /\ dbfw = NoWindow
    /\ scan = NoScan
    /\ \E n \in 1..MaxRows, rows_per_page \in 1..MaxRowsPerPage,
          data_source_type \in {"FILE", "SQLITE"}, other \in OtherSources,
          header \in BOOLEAN :
          /\ header \/ (data_source_type = "SQLITE" /\ other = <<>>)
          /\ LET loaded == load_data([NoTable EXCEPT !.source = SubSeq(SourceIds, 1, n),
                                                     !.other_source = other,
                                                     !.csv_header = header,
                                                     !.rows_per_page = rows_per_page,
                                                     !.data_source_type = data_source_type,
                                                     !.data_source =
                                                         IF data_source_type = "SQLITE"
                                                         THEN "assets.db" ELSE "assets.csv",
                                                     !.db_handler = (data_source_type = "SQLITE"),
                                                     !.cli_ref = TRUE], TRUE)
             IN tv = Done(update(loaded.t, FALSE), TRUE)

SpecOpen == OpenInit /\ [][OpenNext]_vars

----------------------------------------------------------------------------
(* Properties of the merge into the flat file *)

\* the asset_ids merged into a row the file already held
InBoth == DOMAIN merged \cap DOMAIN assets_in_file

\* the row of the file has one key per field of the registry
WellFormed(in_file, k) == Cardinality(DOMAIN in_file[k]) = csv_fields_count

\* a cell of the row that is there and is not the empty-cell marker
Present(cell) == cell # NoneV /\ cell.s # empty_cell

\* C1: for a key in both inputs whose row is well formed, every preserved
\* field whose stored value is non-empty comes out of the merge with the
\* stored value, its text coerced to a boolean when it is the literal of one
C1_PreservedKept ==
    \A k \in InBoth :
        WellFormed(assets_in_file, k) =>
            \A f \in PreservedFields :
                LET stored == DictGet(assets_in_file[k], f)
                IN (Present(stored) /\ stored.s # <<"">>) =>
                       merged[k][FieldPos(f)] =
                           IF stored.s = <<"True">> THEN BoolV(TRUE)
                           ELSE IF stored.s = <<"False">> THEN BoolV(FALSE)
                           ELSE stored

\* a comment and a boolean literal of the file both came through a merge
\* whose incoming record held other values
C1_Witness ==
    \E k \in InBoth :
        /\ WellFormed(assets_in_file, k)
        /\ DictGet(assets_in_file[k], "Comment").s = <<"nice">>
        /\ assets_to_output[k][FieldPos("Comment")] # T("nice")
        /\ merged[k][FieldPos("Comment")] = T("nice")
        /\ merged[k][FieldPos("Must buy")] = BoolV(TRUE)

\* the folders of a value of Origin
Tokens(v) == {v.s[i] : i \in 1..Len(v.s)}

\* C2: for a key in both inputs (its row well formed), the merged Origin
\* holds every folder of the stored Origin and the incoming Origin, with no
\* folder twice
C2_OriginUnion ==
    \A k \in InBoth :
        WellFormed(assets_in_file, k) =>
            LET stored == DictGet(assets_in_file[k], "Origin")
                incoming == assets_to_output[k][FieldPos("Origin")]
                out == merged[k][FieldPos("Origin")]
            IN /\ Tokens(incoming) \subseteq Tokens(out)
               /\ (Present(stored) => Tokens(stored) \subseteq Tokens(out))
               /\ \A i, j \in 1..Len(out.s) : out.s[i] = out.s[j] => i = j

\* C3 as stated: whenever the key was in the file, the merged Old price is
\* the numeric value of the stored Price
C3_OldPriceAlways ==
    \A k \in InBoth :
        merged[k][FieldPos("Old price")] =
            convert_to_float(DictGet(assets_in_file[k], "Price"))

\* C3: the merged Old price is the numeric value of the stored Price when
\* the row is well formed and its Price cell is there and is not the marker;
\* a row that is not well formed leaves the incoming Old price; a Price cell
\* that is missing or the marker captures nothing, and the Old price is the
\* incoming one, or empty when the stored Old price is the marker
C3_OldPriceCaptured ==
    \A k \in InBoth :
        LET row == assets_in_file[k]
            price == DictGet(row, "Price")
            incoming == assets_to_output[k][FieldPos("Old price")]
            out == merged[k][FieldPos("Old price")]
        IN IF ~WellFormed(assets_in_file, k) THEN out = incoming
           ELSE IF Present(price) THEN out = convert_to_float(price)
           ELSE IF DictGet(row, "Old price").s = empty_cell /\ DictGet(row, "Old price") # NoneV
                THEN out = T("")
                ELSE out = incoming

\* the stored price 10.0 became the old price of a record whose incoming
\* price is another one
C3_Witness ==
    \E k \in InBoth :
        /\ WellFormed(assets_in_file, k)
        /\ DictGet(assets_in_file[k], "Price").s = <<"10.0">>
        /\ merged[k][FieldPos("Price")] = FloatV("8.0")
        /\ merged[k][FieldPos("Old price")] = FloatV("10.0")

\* the asset_ids of the rows of a file, and the row of one asset_id
FileIds(f) == {f[j][1] : j \in 2..Len(f)}

\* C4 as stated: a second merge of the same incoming batch into the file the
\* first one wrote gives the same file, field for field
C4_SameFile ==
    (pc = "done" /\ run >= 2) => file = file_at_start

\* the cell of field i of asset k was the marker in the well formed row the
\* first run merged into
MarkerAtFirst(k, i) ==
    /\ k \in DOMAIN first_output.in_file
    /\ WellFormed(first_output.in_file, k)
    /\ DictGet(first_output.in_file[k], CsvFields[i]) = StrV(empty_cell)

\* C4: a second merge of the same incoming batch gives the same rows and
\* the same fields, but for Old price, which is the numeric value of the
\* Price the previous merge wrote, and but for the cells of the other fields
\* not preserved that were the marker before the first merge: the first merge
\* wrote them empty and the second writes the incoming value (for Origin, an
\* empty folder followed by the incoming one)
C4_SameButOldPrice ==
    (pc = "done" /\ run >= 2) =>
        /\ Len(file) = Len(file_at_start)
        /\ \A j \in 2..Len(file) : \A i \in 1..csv_fields_count :
              IF i = FieldPos("Old price")
              THEN file[j][i] =
                       CsvText(convert_to_float(StrV(file_at_start[j][FieldPos("Price")])))
              ELSE \/ file[j][i] = file_at_start[j][i]
                   \/ /\ run = 2
                      /\ MarkerAtFirst(file[j][1], i)
                      /\ ~is_preserved(CsvFields[i])
                      /\ file[j][i] =
                            IF CsvFields[i] = "Origin"
                            THEN <<"">> \o assets_to_output[file[j][1]][i].s
                            ELSE CsvText(assets_to_output[file[j][1]][i])

\* the second merge wrote 8.0 as the old price where the first wrote 10.0
C4_Witness ==
    /\ pc = "done"
    /\ run = 2
    /\ \E j \in 2..Len(file) :
          /\ file_at_start[j][FieldPos("Old price")] = <<"10.0">>
          /\ file[j][FieldPos("Old price")] = <<"8.0">>
          /\ file[j][FieldPos("Comment")] = <<"nice">>

\* C5: the asset_ids of the file written are the asset_ids of the incoming
\* batch: an asset_id the file alone held is not written
C5_WrittenIds ==
    pc = "done" => FileIds(file) = {ItemAssetId(batch[i]) : i \in 1..Len(batch)}

\* the file held a row of C1, the batch did not, and the file written has
\* rows and none of C1
C5_Witness ==
    /\ pc = "done"
    /\ <<"C1">> \in DOMAIN assets_in_file
    /\ <<"C1">> \notin FileIds(file)
    /\ Cardinality(FileIds(file)) >= 2

\* the item of the batch that comes first among those of an asset_id when
\* the batch is ordered by lower-cased app_name, descending, items of the
\* same name staying in the order of the batch
FirstOf(k) ==
    LET same == {i \in 1..Len(batch) : ItemAssetId(batch[i]) = k}
        name(i) == TextRank(Lower(batch[i].app_name))
    IN batch[CHOOSE i \in same :
                 \A j \in same : name(i) > name(j) \/ (name(i) = name(j) /\ i <= j)]

\* C6: the batch gives one record per asset_id, made from the first item of
\* that asset_id in the descending order of lower-cased app_name, and the
\* file written holds one row per asset_id
C6_OnePerAssetId ==
    /\ \A k \in DOMAIN assets_to_output :
          assets_to_output[k][FieldPos("App name")] = T(FirstOf(k).app_name)
    /\ pc = "done" => \A i, j \in 2..Len(file) : file[i][1] = file[j][1] => i = j

\* two items of A1 were in the batch and the one kept is not the first of
\* the batch
C6_Witness ==
    /\ pc = "done"
    /\ Len(batch) >= 2
    /\ batch[1] = ItemA427
    /\ ItemAssetId(batch[2]) = <<"A1">>
    /\ assets_to_output[<<"A1">>][FieldPos("App name")] = T(batch[2].app_name)

\* C7: a row of the file whose number of fields is not the registry's
\* leaves the incoming record as it is and logs an error, and the other
\* assets are merged and written all the same
C7_MalformedRow ==
    /\ \A k \in InBoth :
          ~WellFormed(assets_in_file, k) =>
              /\ merged[k] = assets_to_output[k]
              /\ <<"error: number of keys", k>> \in log
    /\ pc = "done" => DOMAIN merged = DOMAIN assets_to_output

\* the row of A1 was malformed and held a comment, the record of A1 is the
\* incoming one and B1 was written
C7_Witness ==
    /\ pc = "done"
    /\ <<"A1">> \in InBoth
    /\ ~WellFormed(assets_in_file, <<"A1">>)
    /\ DictGet(assets_in_file[<<"A1">>], "Comment") = T("nice")
    /\ merged[<<"A1">>][FieldPos("Comment")] # T("nice")
    /\ <<"B1">> \in FileIds(file)

\* C8 as stated: after the file is written and read back by a merge of the
\* same batch, every preserved field of every record is the value it was
\* before the write
C8_RoundTripValues ==
    (pc = "done" /\ run = 2) =>
        \A k \in DOMAIN merged : \A f \in PreservedFields :
            merged[k][FieldPos(f)] = first_output.merged[k][FieldPos(f)]

\* C8: after the file is written and read back by a merge of the same
\* batch, every preserved field of every record has the text it had before
\* the write; a text or a boolean is the same value, a number comes back as
\* its text
C8_RoundTripText ==
    (pc = "done" /\ run = 2) =>
        \A k \in DOMAIN merged : \A f \in PreservedFields :
            LET before == first_output.merged[k][FieldPos(f)]
                after == merged[k][FieldPos(f)]
            IN /\ k \in DOMAIN first_output.merged
               /\ CsvText(after) = CsvText(before)
               /\ before.t \in {"str", "bool"} => after = before
               /\ after.t \in {"str", "bool"}

\* a comment and a boolean kept by the first merge are there after the
\* second
C8_Witness ==
    /\ pc = "done"
    /\ run = 2
    /\ \E k \in DOMAIN merged :
          /\ first_output.merged[k][FieldPos("Comment")] = T("nice")
          /\ first_output.merged[k][FieldPos("Must buy")] = BoolV(TRUE)
          /\ merged[k][FieldPos("Comment")] = T("nice")
          /\ merged[k][FieldPos("Must buy")] = BoolV(TRUE)

----------------------------------------------------------------------------
(* Properties of the table view *)

\* C9: after any sequence of table operations the current page is a page of
\* the table: 1 <= current_page <= total_pages
C9_PageInRange ==
    tv.current_page >= 1 /\ tv.current_page <= tv.total_pages

\* the least number of pages of d rows that hold n rows
Ceil(n, d) == CHOOSE q \in 0..n : q * d >= n /\ (q - 1) * d < n

\* the rows of the data the loaded filter selects
RowsSelected ==
    {i \in 1..Len(tv.data) :
        tv.loaded_filter = "" \/ tv.data[i].asset_id \in FilterHits(tv.loaded_filter)}

\* C10: when a handler has ended with update() and pagination is enabled,
\* total_pages is the ceiling of n / rows_per_page, n the number of rows the
\* filter selects and not the number of rows of the data
C10_TotalPages ==
    (pc = "gui" /\ tv.shown /\ tv.pagination_enabled) =>
        /\ Len(get_data_filtered(tv)) = Cardinality(RowsSelected)
        /\ tv.total_pages = Ceil(Cardinality(RowsSelected), tv.rows_per_page)

\* a filter is shown that keeps some rows out, on fewer pages than all the
\* rows take
C10_Witness ==
    /\ pc = "gui"
    /\ tv.shown
    /\ tv.pagination_enabled
    /\ tv.loaded_filter # ""
    /\ Cardinality(RowsSelected) > 0
    /\ tv.total_pages < Ceil(Len(tv.data), tv.rows_per_page)

----------------------------------------------------------------------------
(* Properties of the edits of the table and of their saving *)

\* the step is a save_data that has reached its end
SaveCompleted ==
    /\ pc = "gui"
    /\ \E failure \in WriteFailures, failing \in MayFail(tv) :
          /\ save_data(tv, failure, failing).ok
          /\ tv' = Done([save_data(tv, failure, failing).t EXCEPT !.saves = @ + 1], FALSE)

\* C11: when save_data reaches its end, on a flat file or on a database, the
\* dirty-row list and the delete list are empty and must_save is false
C11_SavedClean ==
    [][SaveCompleted => /\ tv'.changed_rows = <<>>
                        /\ tv'.deleted_asset_ids = <<>>
                        /\ ~tv'.must_save]_vars

\* a save to the database has upserted a dirty row and deleted an asset_id,
\* and has left nothing pending
C11_Witness ==
    /\ tv.saves = 1
    /\ tv.data_source_type = "SQLITE"
    /\ tv.db_saved # {}
    /\ tv.db_deleted # {}
    /\ tv.changed_rows = <<>>
    /\ tv.deleted_asset_ids = <<>>
    /\ ~tv.must_save

\* the step is a reload_data that has loaded the data source again
ReloadCompleted ==
    /\ pc = "gui"
    /\ \E answer \in BOOLEAN :
          /\ load_data(tv, answer).ok
          /\ tv' = Done(update(load_data(tv, answer).t, FALSE), TRUE)

\* the step is the end of a rebuild_data that has loaded the rebuilt source
RebuildCompleted ==
    /\ pc \in {"gui", "rebuild"}
    /\ pc' = "gui"
    /\ tv'.saves = IF pc = "gui" THEN tv.saves + 1 ELSE tv.saves
    /\ \E rebuilt \in ScrapedSources :
          LET loaded == load_data([tv EXCEPT !.source = rebuilt, !.current_page = 1], TRUE)
          IN /\ loaded.ok
             /\ tv'.data = loaded.t.data
             /\ tv'.source = rebuilt
             /\ tv'.shown

\* C12: when reload_data or rebuild_data has replaced the data in memory,
\* the dirty-row list and the delete list are empty
C12_NoStaleEntry ==
    [][(ReloadCompleted \/ RebuildCompleted)
          => (tv'.changed_rows = <<>> /\ tv'.deleted_asset_ids = <<>>)]_vars

\* the part of C12 about rebuild_data alone
C12_RebuildOnly ==
    [][RebuildCompleted => (tv'.changed_rows = <<>> /\ tv'.deleted_asset_ids = <<>>)]_vars

\* C13: a save to the database upserts only records that were created or
\* edited since the last save, and deletes only the asset_ids of the delete
\* list
C13_OnlyDirtyWritten ==
    [][(SaveCompleted /\ tv.data_source_type = "SQLITE")
          => /\ tv'.db_saved \subseteq tv.touched
             /\ tv'.db_deleted \subseteq Range(tv.deleted_asset_ids)]_vars

\* the part of C13 about the deletions alone
C13_OnlyListedDeleted ==
    [][(SaveCompleted /\ tv.data_source_type = "SQLITE")
          => tv'.db_deleted \subseteq Range(tv.deleted_asset_ids)]_vars

\* the step is a save_data on a flat file that to_csv has ended with an
\* exception
SaveFailed ==
    /\ pc = "gui"
    /\ tv.data_source_type = "FILE"
    /\ \E failure \in WriteFailures :
          /\ ~save_data(tv, failure, {}).ok
          /\ tv' = Done([save_data(tv, failure, {}).t EXCEPT !.saves = @ + 1], FALSE)

\* C14: when the write of the flat file fails, the dirty-row list, the
\* delete list and the data are as before the save, and must_save, when it
\* was true, is still true
C14_FailedWriteKeepsLists ==
    [][SaveFailed => /\ tv'.changed_rows = tv.changed_rows
                     /\ tv'.deleted_asset_ids = tv.deleted_asset_ids
                     /\ tv'.data = tv.data
                     /\ (tv.must_save => tv'.must_save)]_vars

\* a save to a flat file has failed with a dirty row and a deleted asset_id
\* pending: they are still pending
C14_Witness ==
    /\ tv.saves = 1
    /\ tv.data_source_type = "FILE"
    /\ tv.changed_rows # <<>>
    /\ tv.deleted_asset_ids # <<>>
    /\ tv.must_save
    /\ tv.df = tv.data

\* the step is a save_data on a database for which the handler has refused
\* the asset_ids of failing
SavedBut(failing) ==
    /\ pc = "gui"
    /\ tv.data_source_type = "SQLITE"
    /\ tv' = Done([save_data(tv, "none", failing).t EXCEPT !.saves = @ + 1], FALSE)

C16_CancelledBeforeWrite ==
    [][/\ (pc = "rebuild" /\ ~tv.continue_execution)
             => (pc' = "gui" /\ tv' = Done(tv, FALSE))
       /\ (pc = "build" /\ pc' = "cancelled")
             => /\ ~backed_up'
                /\ file' = file_at_start
                /\ assets_in_file' = <<>>
                /\ merged' = <<>>]_vars

\* a rebuild of a database that the user has stopped has returned
C16_Witness ==
    /\ pc = "gui"
    /\ tv.data_source_type = "SQLITE"
    /\ ~tv.continue_execution
    /\ tv.saves = 1
    /\ Len(tv.data) = MaxRows - 1
    /\ tv.source = SubSeq(SourceIds, 1, MaxRows - 1)

\* a list command cancelled while it created the records, over an existing
\* file
C16_WitnessList ==
    /\ pc = "cancelled"
    /\ ~backed_up
    /\ cpt > 0
    /\ Len(file) > 1
    /\ file = file_at_start

\* the output file holds the header and one row for each asset to output
CompleteOutput ==
    /\ Len(file) = Len(WriteOrder) + 1
    /\ file[1] = HeaderRow
    /\ FileIds(file) = DOMAIN assets_to_output

\* C17: when the list command has returned, by its end or by a
\* cancellation, the output file holds what it held at the start or the
\* complete new set of rows
C17_AllOrNothing ==
    pc \in {"done", "cancelled"} => (file = file_at_start \/ CompleteOutput)

\* the part of C17 about the normal end alone
C17_CompleteAtEnd ==
    pc = "done" => CompleteOutput

\* the step is a del_row on the selected rows, with these answers
Deleted(multiplerowlist, confirmed) ==
    /\ pc = "gui"
    /\ multiplerowlist # {}
    /\ tv' = Done(del_row(tv, Ascending(multiplerowlist), confirmed, 0).t, FALSE)

\* the asset_ids of the records shown at the positions for which the user
\* has answered yes
ShownAt(multiplerowlist, confirmed) ==
    {tv.df[r + 1].asset_id : r \in del_row(tv, Ascending(multiplerowlist), confirmed, 0).yes}

\* C18: del_row removes from the data, and adds to the delete list, the
\* records shown at the selected positions the user has confirmed, and no
\* other
C18_DeletesShown ==
    [][\A multiplerowlist \in SUBSET (0..(Len(tv.df) - 1)) :
          \A confirmed \in SUBSET multiplerowlist :
             Deleted(multiplerowlist, confirmed)
                => /\ Ids(tv.data) \ Ids(tv'.data) = ShownAt(multiplerowlist, confirmed)
                   /\ Range(tv'.deleted_asset_ids)
                         = Range(tv.deleted_asset_ids) \cup ShownAt(multiplerowlist, confirmed)]_vars

\* the part of C18 about one selected row in a table shown by update()
C18_OneRowShown ==
    [][\A r \in 0..(Len(tv.df) - 1) : \A confirmed \in SUBSET {r} :
          (Deleted({r}, confirmed) /\ tv.shown)
             => /\ Ids(tv.data) \ Ids(tv'.data) = ShownAt({r}, confirmed)
                /\ Range(tv'.deleted_asset_ids)
                      = Range(tv.deleted_asset_ids) \cup ShownAt({r}, confirmed)]_vars

\* the step is the edit of a cell of the displayed row of this position
Edited(row) ==
    /\ pc = "gui"
    /\ row \in 0..(Len(tv.df) - 1)
    /\ tv' = Done(save_edit_cell_value(tv, row), FALSE)

\* C19: with the pagination enabled, after the edit of a cell of a row of
\* the page that update() has shown, on any page, the position is in the
\* dirty-row list and get_row resolves it to the record that was edited
C19_DirtyResolvesToEdited ==
    [][\A row \in 0..(Len(tv.df) - 1) :
          (Edited(row) /\ tv.pagination_enabled /\ tv.shown)
             => /\ row \in Range(tv'.changed_rows)
                /\ get_row(tv', row) = <<tv.df[row + 1]>>]_vars

\* the part of C19 about the first page of a table shown by update()
C19_FirstPage ==
    [][\A row \in 0..(Len(tv.df) - 1) :
          (Edited(row) /\ tv.pagination_enabled /\ tv.current_page = 1 /\ tv.shown)
             => /\ row \in Range(tv'.changed_rows)
                /\ get_row(tv', row) = <<tv.df[row + 1]>>]_vars

\* the fields the merge takes from the incoming record
OverwrittenFields == FieldSet \ (PreservedFields \cup {"Origin", "Old price"})

\* C20: for a key in both inputs whose row is well formed, every field that
\* is not preserved, Origin and Old price apart, comes out of the merge with
\* the incoming value, whatever the stored cell holds
C20_IncomingWins ==
    \A k \in InBoth :
        WellFormed(assets_in_file, k) =>
            \A f \in OverwrittenFields :
                merged[k][FieldPos(f)] = assets_to_output[k][FieldPos(f)]

\* the part of C20 about the stored cells that do not hold the empty-cell
\* marker
C20_IncomingWinsUnlessMarker ==
    \A k \in InBoth :
        WellFormed(assets_in_file, k) =>
            \A f \in OverwrittenFields :
                DictGet(assets_in_file[k], f).s # empty_cell
                    => merged[k][FieldPos(f)] = assets_to_output[k][FieldPos(f)]

----------------------------------------------------------------------------
(* Properties of the loading of the data source *)

\* the step is a reload_data on a data source that holds no record
LoadedEmpty ==
    /\ pc = "gui"
    /\ tv.source = <<>>
    /\ tv.data_source_type = "SQLITE" => tv.db_handler
    /\ \E answer \in BOOLEAN :
          LET loaded == load_data(tv, answer)
          IN tv' = Done(IF loaded.ok THEN update(loaded.t, FALSE) ELSE loaded.t, loaded.ok)

\* the data is the one row create_row(add_to_existing=False) makes
OnePlaceholder(t) == Len(t.data) = 1 /\ t.data[1].asset_id = "dummy_row"

\* C21: when load_data has read a source that holds no record (a flat file
\* without content or with its header row only, a database without rows),
\* the data is exactly one placeholder record and must_rebuild is true
C21_EmptyLoadsPlaceholder ==
    [][LoadedEmpty => (OnePlaceholder(tv') /\ tv'.must_rebuild)]_vars

\* the part of C21 that holds: must_rebuild is set for every empty source,
\* and the placeholder is there when the source is not a flat file with its
\* header row only
C21_PlaceholderUnlessHeaderOnly ==
    [][LoadedEmpty => /\ tv'.must_rebuild
                      /\ (tv.data_source_type = "FILE" /\ tv.csv_header) \/ OnePlaceholder(tv')]_vars

----------------------------------------------------------------------------
(* Properties of the filter frame *)

\* the step is an evaluation of the loaded filter by get_filtered_df
Evaluated ==
    /\ pc = "gui"
    /\ tv' = [get_filtered_df(tv).t EXCEPT !.query_result = get_filtered_df(tv).result]

\* C22: an evaluation of the loaded filter by get_filtered_df, also when its
\* callable is not found or when its expression cannot be parsed, leaves
\* the records of the data, and the data source, as they were
C22_EvaluationKeepsRecords ==
    [][Evaluated => (tv'.data = tv.data /\ tv'.source = tv.source)]_vars

\* the query of a filter that cannot be parsed has raised, over a table from
\* which a row had been deleted
C22_Witness ==
    /\ tv.query_result.kind = "raised"
    /\ tv.loaded_filter = "Price >"
    /\ tv.deleted_asset_ids # <<>>
    /\ tv.data # <<>>

\* a callable that is found has selected rows, and not all of them
C22_WitnessRows ==
    /\ tv.query_result.kind = "rows"
    /\ tv.loaded_filter = "owned()"
    /\ tv.query_result.rows # <<>>
    /\ Len(tv.query_result.rows) < Len(tv.data)

\* the step is an evaluation in which the callable of the filter is not found
MissingCallable ==
    /\ Evaluated
    /\ tv.loaded_filter = "gone()"

\* the part of C22 about the callable that is not found: the filter is
\* cleared, and the records are as they were
C22_MissingCallableClears ==
    [][MissingCallable => /\ tv'.loaded_filter = ""
                          /\ tv'.query_result.kind = "None"
                          /\ tv'.data = tv.data]_vars

\* the step is a clear_filter (the Clear button)
Cleared ==
    /\ pc = "gui"
    /\ FilterButtonsEnabled(tv)
    /\ tv' = clear_filter(tv)

\* the filter conditions of t are reset and the table shows the first page
\* of all the rows of the data
ShowsUnfiltered(t) ==
    /\ t.cb_quick_filter = ""
    /\ t.entry_query = ""
    /\ t.loaded_filter = ""
    /\ get_data_filtered(t) = t.data
    /\ t.row_filtered_count = Len(t.data)
    /\ t.df = IF t.pagination_enabled THEN PySlice(t.data, 0, t.rows_per_page) ELSE t.data

\* C23: after clear_filter, whatever filter operations came before, the
\* quick filter, the query and the loaded filter are reset and the table
\* shows the unfiltered data
C23_ClearShowsAll ==
    [][Cleared => ShowsUnfiltered(tv')]_vars

\* the part of C23 that holds: the conditions are always reset, and the
\* table shows the unfiltered data when the query entry was not empty at
\* the last set_filter or key release
C23_ClearAfterQuery ==
    [][Cleared => /\ tv'.cb_quick_filter = ""
                  /\ tv'.entry_query = ""
                  /\ tv'.loaded_filter = ""
                  /\ tv.old_entry_query # "" => ShowsUnfiltered(tv')]_vars

----------------------------------------------------------------------------
(* Properties of the pending changes of the table *)

\* C24: in every state of the table view, when the dirty-row list or the
\* delete list is not empty, must_save is true (on_close reads must_save to
\* offer to save)
C24_PendingMeansMustSave ==
    (tv.changed_rows # <<>> \/ tv.deleted_asset_ids # <<>>) => tv.must_save

\* the part of C24 about the dirty-row list alone
C24_DirtyMeansMustSave ==
    tv.changed_rows # <<>> => tv.must_save

\* C25: every entry of the dirty-row list is a position of a row of the
\* data in memory
C25_DirtyInRange ==
    \A i \in 1..Len(tv.changed_rows) :
       0 <= tv.changed_rows[i] /\ tv.changed_rows[i] < Len(tv.data)

\* what add_to_rows_to_save itself keeps out, as long as the data does not
\* shrink: an entry is never negative
C25_DirtyNotNegative ==
    \A i \in 1..Len(tv.changed_rows) : 0 <= tv.changed_rows[i]

\* the step is a rebuild_data on a flat file that has returned False: the
\* application was not launched from the command line, or load_data has
\* failed on the file list_assets wrote
RebuildReturnedFalse ==
    /\ pc = "gui"
    /\ pc' = "gui"
    /\ tv.data_source_type = "FILE"
    /\ tv'.saves = tv.saves + 1
    /\ ~tv'.shown

\* C26: a rebuild_data that returns False leaves the dirty-row list, the
\* delete list and must_save as they were before the call
C26_FailedRebuildKeepsLists ==
    [][RebuildReturnedFalse => /\ tv'.changed_rows = tv.changed_rows
                               /\ tv'.deleted_asset_ids = tv.deleted_asset_ids
                               /\ tv'.must_save = tv.must_save]_vars

\* what such a call does leave as it was when the application was not
\* launched from the command line: the data in memory and the data source
C26_RefusedKeepsData ==
    [][(RebuildReturnedFalse /\ ~tv.cli_ref)
          => (tv'.data = tv.data /\ tv'.source = tv.source /\ tv'.df = tv.df)]_vars

----------------------------------------------------------------------------
(* Properties of the opening of another data source *)

\* the step is an open_file in which valid_source_type has asked and the
\* user has declined
Declined ==
    /\ pc = "gui"
    /\ \E filename \in DataSources :
          /\ ~valid_source_type(set_data_source(tv, filename), filename, FALSE).go_on
          /\ tv' = open_file(tv, filename, FALSE)

\* C27: when the user declines the change of the type of the data source,
\* data_source_type keeps the value it had (so that the next load of that
\* source asks again)
C27_DeclinedKeepsType ==
    [][Declined => /\ tv'.data_source_type = tv.data_source_type
                   /\ ~valid_source_type(tv', tv'.data_source, FALSE).go_on]_vars

\* what a declined change does leave as it was: the data in memory and the
\* content of the two files
C27_DeclinedKeepsData ==
    [][Declined => /\ tv'.data = tv.data
                   /\ tv'.df = tv.df
                   /\ {tv'.source, tv'.other_source} = {tv.source, tv.other_source}]_vars

----------------------------------------------------------------------------
(* Properties of the two merges of the list command *)

\* the fields the two merges are compared on
ComparedFields == PreservedFields \cup {"Origin", "Old price"}

\* what the JSON merge gives for the asset k of the state, the rows of the
\* file taken as the records of a JSON file
JsonMergedOf(k) == JsonRecordMerged(k, assets_to_output[k], JsonRecords(assets_in_file))

\* the two merges give the field f of the asset k the same text
SameMerged(k, f) == CsvText(merged[k][FieldPos(f)]) = CsvText(JsonMergedOf(k)[FieldPos(f)])

\* C28: for the same incoming record and the same well-formed existing
\* record, the CSV merge and the JSON merge give the same value to every
\* preserved field, to Origin and to 'Old price'
C28_SameMerge ==
    \A k \in InBoth :
        WellFormed(assets_in_file, k) => \A f \in ComparedFields : SameMerged(k, f)

\* the part of C28 that holds, for the fields whose stored cell and the
\* stored price are present (not missing, not the empty-cell marker): the
\* preserved fields and 'Old price' are the same, Origin is the same when
\* the stored Origin is the incoming one
C28_SameButOrigin ==
    \A k \in InBoth :
        WellFormed(assets_in_file, k) =>
            \A f \in ComparedFields :
                (/\ Present(DictGet(assets_in_file[k], f))
                 /\ Present(DictGet(assets_in_file[k], "Price"))
                 /\ f = "Origin" => DictGet(assets_in_file[k], "Origin").s
                                        = assets_to_output[k][FieldPos("Origin")].s)
                    => SameMerged(k, f)

----------------------------------------------------------------------------
(* Properties of the import/export window *)

\* C29: the processing flag is true exactly while an import or an export
\* is running; in particular it is false again once the operation has
\* ended, also when it ended with an error
C29_ProcessingOnlyWhileRunning ==
    dbfw.processing <=> dbfw.running # "None"

\* the flag is true as long as a handler runs
C29_RunningMeansProcessing ==
    dbfw.running # "None" => dbfw.processing

\* a click on one of the two buttons that arrives while an operation is
\* running performs no operation of the database handler and leaves the
\* running operation where it is
C29_ClickWhileRunningDoesNothing ==
    [][dbfw.running # "None" /\ dbfw'.infos # dbfw.infos
         => /\ dbfw'.db_calls = dbfw.db_calls
            /\ dbfw'.running = dbfw.running
            /\ dbfw'.at = dbfw.at]_vars

\* an operation that ends without an error leaves the flag false
C29_FlagFalseAfterSuccess ==
    [][dbfw.at = "finished" /\ dbfw'.at = "None" => ~dbfw'.processing]_vars

----------------------------------------------------------------------------
(* Properties of the scan of the folders *)

\* C30: after any scan, completed or cancelled, the settings hold the same
\* folders to scan as before the call
C30_ScanKeepsSetting ==
    scan.ended \in {"completed", "cancelled"} => scan.folders_to_scan = scan.before

\* once the local variable is bound to a list of its own, the scan leaves
\* the list of the settings alone
C30_SettingKeptOnceRebound ==
    [][scan.at = "loop" /\ ~scan.aliased
         => scan'.folders_to_scan = scan.folders_to_scan]_vars

\* a scan never adds to the folders the next scan starts from more than it
\* found on the disk: the setting only loses folders or gains folders of
\* the disk
C30_SettingWithinDisk ==
    \A i \in 1..Len(scan.folders_to_scan) :
        scan.folders_to_scan[i] \in ConfiguredFolders \cup DirsNow(scan.restructured)

====
